---- MODULE Spec2Model ----
(***************************************************************************)
(* Host-side capability engine of wasm96-core: the immediate-mode          *)
(* rasterizer (av/graphics.rs), the audio mixer (av/audio.rs), the keyed   *)
(* resource registry (av/resources.rs, av/graphics.rs), the key-value      *)
(* storage bridge (av/storage.rs) and the guest-memory accessor            *)
(* (av/utils.rs).                                                          *)
(*                                                                         *)
(* Machine words.  The code's u32/i32 are modelled at WordBits bits and    *)
(* its i64 at twice that width, so that every overflow the 32/64-bit code  *)
(* can run into has a counterpart that the model checker can reach.        *)
(* i16 samples and u8 bytes keep their real width.  Rust arithmetic        *)
(* overflow panics in a build with overflow checks (debug) and wraps in a  *)
(* build without (release): overflow_checks is fixed per run by Init.      *)
(***************************************************************************)
EXTENDS Integers, Sequences, FiniteSets, TLC

VARIABLES
    overflow_checks,  \* build profile: TRUE = arithmetic overflow panics
    panicked,         \* a host function panicked (global mutex poisoned)
    width,            \* GlobalState.video.width
    height,           \* GlobalState.video.height
    framebuffer,      \* GlobalState.video.framebuffer (Vec<u32>)
    draw_color,       \* GlobalState.video.draw_color
    draws,            \* draw calls issued since the last clear / resize
    handle,           \* GlobalState.handle is non-null
    memory,           \* guest linear memory: << >> while memory_wasmtime is
                      \* null, << bytes >> once an instance registered it
    sample_rate,      \* GlobalState.audio.sample_rate
    host_queue,       \* GlobalState.audio.host_queue (Vec<i16>)
    channels,         \* GlobalState.audio.channels (Vec<AudioChannel>)
    uploaded,         \* the buffer of the last upload_audio_frame call
    kv,               \* GlobalState.storage.kv (map key -> bytes)
    res,              \* RESOURCES (the resource registry)
    game_data,        \* Wasm96Core.game_data: << >> or << rom >>
    module,           \* Wasm96Core.module: << >> or << compiled rom >>
    instance,         \* Wasm96Core.instance: << >> or << exports >>
    entrypoints,      \* Wasm96Core.entrypoints: << >> or << GuestEntrypoints >>
    steps,            \* what the last front-end callback did, in order
    lock_owner,       \* which thread holds each mutex (0: nobody)
    call_chain,       \* per thread: the lock steps its host call has left
    ring,             \* the upload-ABI AudioState ring buffer indices
    last              \* the last host call: its name, arguments and result

vars == << overflow_checks, panicked, width, height, framebuffer, draw_color,
           draws, handle, memory, sample_rate, host_queue, channels, uploaded,
           kv, res, game_data, module, instance, entrypoints, steps,
           lock_owner, call_chain, ring, last >>

gfx_vars == << width, height, framebuffer, draw_color, draws >>
audio_vars == << handle, sample_rate, host_queue, channels, uploaded >>
core_vars == << game_data, module, instance, entrypoints, steps >>
aux_vars == << lock_owner, call_chain, ring >>

(***************************************************************************)
(* Bounds of the model.                                                    *)
(***************************************************************************)
WordBits == 8
MaxDraws == 1

(***************************************************************************)
(* Machine integers.                                                       *)
(***************************************************************************)
U32Mod == 2^WordBits
U32Max == U32Mod - 1
I32Max == 2^(WordBits - 1) - 1
I32Min == -(2^(WordBits - 1))
I64Mod == 2^(2 * WordBits)
I64Max == 2^(2 * WordBits - 1) - 1
I64Min == -(2^(2 * WordBits - 1))

FitsU32(v) == v >= 0 /\ v <= U32Max
FitsI32(v) == v >= I32Min /\ v <= I32Max
FitsI64(v) == v >= I64Min /\ v <= I64Max
WrapU32(v) == v % U32Mod
WrapI32(v) == ((v - I32Min) % U32Mod) + I32Min
WrapI64(v) == ((v - I64Min) % I64Mod) + I64Min

Min2(a, b) == IF a <= b THEN a ELSE b
Max2(a, b) == IF a >= b THEN a ELSE b
Abs(v) == IF v < 0 THEN -v ELSE v

(***************************************************************************)
(* Result of a draw call: whether it panicked, whether its loop failed to  *)
(* finish, and the framebuffer indices (0-based) it stored the draw color  *)
(* into.  An index outside the vector is a Rust bounds-check panic.        *)
(***************************************************************************)
DrawPanic == [panic |-> TRUE, hang |-> FALSE, writes |-> {}]
DrawOk(ws) == [panic |-> FALSE, hang |-> FALSE, writes |-> ws]
DrawIdx(ws, len) ==
    IF \E i \in ws : i < 0 \/ i >= len THEN DrawPanic ELSE DrawOk(ws)

ApplyWrites(fb, ws, color) ==
    [i \in 1..Len(fb) |-> IF (i - 1) \in ws THEN color ELSE fb[i]]

PackRGB(r, g, b) == (r % 256) * 65536 + (g % 256) * 256 + (b % 256)

(***************************************************************************)
(* graphics.rs: state setters.                                             *)
(***************************************************************************)
Call(op, args, ret) == [op |-> op, args |-> args, ret |-> ret]

\* A resize that keeps the pixels the old buffer had (Vec::resize without
\* the fill).
graphics_set_size_without_fill(w, h) ==
    /\ ~panicked
    /\ IF w = 0 \/ h = 0
       THEN /\ UNCHANGED << width, height, framebuffer, draws, panicked >>
            /\ last' = Call("set_size", << w, h >>, "ignored")
       ELSE /\ width' = w
            /\ height' = h
            /\ IF overflow_checks /\ ~FitsU32(w * h)
               THEN /\ panicked' = TRUE
                    /\ UNCHANGED << framebuffer, draws >>
                    /\ last' = Call("set_size", << w, h >>, "panic")
               ELSE /\ framebuffer' =
                          [i \in 1..WrapU32(w * h) |->
                             IF i <= Len(framebuffer) THEN framebuffer[i]
                             ELSE 0]
                    /\ draws' = 0
                    /\ panicked' = FALSE
                    /\ last' = Call("set_size", << w, h >>, "ok")
    /\ UNCHANGED << aux_vars, core_vars, overflow_checks, draw_color, audio_vars,
                    memory, kv, res >>

\* graphics_set_size: `width * height` is a u32 product; width and height are
\* stored before it is evaluated.
graphics_set_size(w, h) ==
    /\ ~panicked
    /\ IF w = 0 \/ h = 0
       THEN /\ UNCHANGED << width, height, framebuffer, draws, panicked >>
            /\ last' = Call("set_size", << w, h >>, "ignored")
       ELSE /\ width' = w
            /\ height' = h
            /\ IF overflow_checks /\ ~FitsU32(w * h)
               THEN /\ panicked' = TRUE
                    /\ UNCHANGED << framebuffer, draws >>
                    /\ last' = Call("set_size", << w, h >>, "panic")
               ELSE /\ framebuffer' = [i \in 1..WrapU32(w * h) |-> 0]
                    /\ draws' = 0
                    /\ panicked' = FALSE
                    /\ last' = Call("set_size", << w, h >>, "ok")
    /\ UNCHANGED << aux_vars, core_vars, overflow_checks, draw_color, audio_vars, memory, kv, res >>

graphics_set_color(r, g, b, a) ==
    /\ ~panicked
    /\ draw_color' = PackRGB(r, g, b)
    /\ last' = Call("set_color", << r, g, b, a >>, "ok")
    /\ UNCHANGED << aux_vars, core_vars, overflow_checks, panicked, width, height, framebuffer,
                    draws, audio_vars, memory, kv, res >>

graphics_background(r, g, b) ==
    /\ ~panicked
    /\ framebuffer' = [i \in 1..Len(framebuffer) |-> PackRGB(r, g, b)]
    /\ draws' = 0
    /\ last' = Call("background", << r, g, b >>, "ok")
    /\ UNCHANGED << aux_vars, core_vars, overflow_checks, panicked, width, height, draw_color,
                    audio_vars, memory, kv, res >>

(***************************************************************************)
(* graphics.rs: primitives.  Each *_draw operator is the body of the host  *)
(* function run against the current video state.                           *)
(***************************************************************************)
graphics_point_draw(x, y) ==
    LET w == WrapI32(width)
        h == WrapI32(height)
        m == y * w
        s == WrapI32(m) + x
    IN  IF x >= 0 /\ x < w /\ y >= 0 /\ y < h
        THEN IF overflow_checks /\ (~FitsI32(m) \/ ~FitsI32(s))
             THEN DrawPanic
             ELSE DrawIdx({WrapI32(s)}, Len(framebuffer))
        ELSE DrawOk({})

graphics_rect_draw(x, y, w, h) ==
    LET screen_w == WrapI32(width)
        screen_h == WrapI32(height)
        xe == x + WrapI32(w)
        ye == y + WrapI32(h)
        x_start == Max2(x, 0)
        y_start == Max2(y, 0)
        x_end == Min2(WrapI32(xe), screen_w)
        y_end == Min2(WrapI32(ye), screen_h)
        fb_w == width
        rows == y_start..(y_end - 1)
    IN  IF overflow_checks /\ (~FitsI32(xe) \/ ~FitsI32(ye))
        THEN DrawPanic
        ELSE IF x_start >= x_end \/ y_start >= y_end
        THEN DrawOk({})
        ELSE IF \E cy \in rows : cy * fb_w + x_end > Len(framebuffer)
        THEN DrawPanic
        ELSE DrawOk({cy * fb_w + cx : cy \in rows, cx \in x_start..(x_end - 1)})

\* One pixel of the circle-fill loop: overflow of its i32 arithmetic, and
\* whether the squared-distance test lets the pixel be stored.
CirclePixel(x, y, cx, cy, r_sq, w) ==
    LET dx == x - cx
        dy == y - cy
        dx2 == WrapI32(dx) * WrapI32(dx)
        dy2 == WrapI32(dy) * WrapI32(dy)
        d2 == WrapI32(dx2) + WrapI32(dy2)
        inside == WrapI32(d2) <= r_sq
        m == y * w
        s == WrapI32(m) + x
    IN  [ovf |-> ~FitsI32(dx) \/ ~FitsI32(dy) \/ ~FitsI32(dx2) \/ ~FitsI32(dy2)
                 \/ ~FitsI32(d2) \/ (inside /\ (~FitsI32(m) \/ ~FitsI32(s))),
         inside |-> inside,
         idx |-> WrapI32(s)]

graphics_circle_draw(cx, cy, r) ==
    LET w == WrapI32(width)
        h == WrapI32(height)
        rr == r * r
        r_sq == WrapI32(WrapU32(rr))
        r_i32 == WrapI32(r)
        xlo == cx - r_i32
        xhi == cx + r_i32
        ylo == cy - r_i32
        yhi == cy + r_i32
        x_min == Max2(WrapI32(xlo), 0)
        x_max == Min2(WrapI32(xhi), w)
        y_min == Max2(WrapI32(ylo), 0)
        y_max == Min2(WrapI32(yhi), h)
        box == (x_min..(x_max - 1)) \X (y_min..(y_max - 1))
        px(p) == CirclePixel(p[1], p[2], cx, cy, r_sq, w)
    IN  IF overflow_checks
           /\ (~FitsU32(rr) \/ ~FitsI32(xlo) \/ ~FitsI32(xhi)
               \/ ~FitsI32(ylo) \/ ~FitsI32(yhi) \/ \E p \in box : px(p).ovf)
        THEN DrawPanic
        ELSE DrawIdx({px(p).idx : p \in {q \in box : px(q).inside}},
                     Len(framebuffer))

\* The bounds-checked store shared by graphics_line and the `plot` closure of
\* graphics_circle_outline: [ovf, writes] for one candidate pixel.
Plot(x, y, w, h) ==
    LET m == y * w
        s == WrapI32(m) + x
    IN  IF x >= 0 /\ x < w /\ y >= 0 /\ y < h
        THEN [ovf |-> ~FitsI32(m) \/ ~FitsI32(s), writes |-> {WrapI32(s)}]
        ELSE [ovf |-> FALSE, writes |-> {}]

LoopFuel == 4 * U32Mod

\* One iteration of the Bresenham loop of graphics_line on the loop state
\* st = [x0, y0, err, writes, status]; c holds the loop's constants.
LineStep(st, c) ==
    LET pl == Plot(st.x0, st.y0, c.w, c.h)
        ws == st.writes \cup pl.writes
        e2 == 2 * st.err
        stepx == WrapI32(e2) >= c.dy
        err1 == IF stepx THEN st.err + c.dy ELSE st.err
        nx == IF stepx THEN st.x0 + c.sx ELSE st.x0
        stepy == WrapI32(e2) <= c.dx
        err2 == IF stepy THEN WrapI32(err1) + c.dx ELSE WrapI32(err1)
        ny == IF stepy THEN st.y0 + c.sy ELSE st.y0
    IN  IF st.status # "run" THEN st
        ELSE IF overflow_checks /\ pl.ovf
        THEN [st EXCEPT !.status = "panic"]
        ELSE IF st.x0 = c.x1 /\ st.y0 = c.y1
        THEN [st EXCEPT !.writes = ws, !.status = "done"]
        ELSE IF overflow_checks
                /\ (~FitsI32(e2) \/ ~FitsI32(err1) \/ ~FitsI32(nx)
                    \/ ~FitsI32(err2) \/ ~FitsI32(ny))
        THEN [st EXCEPT !.status = "panic"]
        ELSE [x0 |-> WrapI32(nx), y0 |-> WrapI32(ny), err |-> WrapI32(err2),
              writes |-> ws, status |-> "run"]

\* n iterations of the loop (stopping early once it has left the loop).
RECURSIVE LineRun(_, _, _)
LineRun(st, c, n) ==
    IF st.status # "run" THEN st
    ELSE IF n <= 1 THEN LineStep(st, c)
    ELSE LET half == LineRun(st, c, n \div 2)
         IN  LineRun(half, c, n - (n \div 2))

graphics_line_draw(x0, y0, x1, y1) ==
    LET xd == x1 - x0
        yd == y1 - y0
        dxa == Abs(WrapI32(xd))
        dya == Abs(WrapI32(yd))
        dx == WrapI32(dxa)
        dyn == -WrapI32(dya)
        dy == WrapI32(dyn)
        e0 == dx + dy
        c == [x1 |-> x1, y1 |-> y1, dx |-> dx, dy |-> dy,
              sx |-> IF x0 < x1 THEN 1 ELSE -1,
              sy |-> IF y0 < y1 THEN 1 ELSE -1,
              w |-> WrapI32(width), h |-> WrapI32(height),
              len |-> Len(framebuffer)]
    IN  IF overflow_checks
           /\ (~FitsI32(xd) \/ ~FitsI32(yd) \/ ~FitsI32(dxa) \/ ~FitsI32(dya)
               \/ ~FitsI32(dyn) \/ ~FitsI32(e0))
        THEN DrawPanic
        ELSE LET end == LineRun([x0 |-> x0, y0 |-> y0, err |-> WrapI32(e0),
                                 writes |-> {}, status |-> "run"], c, LoopFuel)
             IN  IF end.status = "panic" THEN DrawPanic
                 ELSE IF end.status = "run"
                 THEN [panic |-> FALSE, hang |-> TRUE, writes |-> end.writes]
                 ELSE DrawIdx(end.writes, c.len)

\* The eight symmetric plots of one iteration of graphics_circle_outline.
OctantPlots(cx, cy, x, y, w, h) ==
    LET xs == << cx + x, cx - x, cx + y, cx - y >>
        ys == << cy + y, cy - y, cy + x, cy - x >>
        pts == { << 1, 1 >>, << 2, 1 >>, << 1, 2 >>, << 2, 2 >>,
                 << 3, 3 >>, << 4, 3 >>, << 3, 4 >>, << 4, 4 >> }
        pl(p) == Plot(WrapI32(xs[p[1]]), WrapI32(ys[p[2]]), w, h)
    IN  [ovf |-> (\E i \in 1..4 : ~FitsI32(xs[i]) \/ ~FitsI32(ys[i]))
                 \/ (\E p \in pts : pl(p).ovf),
         writes |-> UNION {pl(p).writes : p \in pts}]

\* One iteration of the `while y >= x` loop of graphics_circle_outline on
\* the loop state st = [x, y, d, writes, status].
CircleStep(st, c) ==
    LET pl == OctantPlots(c.cx, c.cy, st.x, st.y, c.w, c.h)
        x1 == st.x + 1
        y1 == IF st.d > 0 THEN st.y - 1 ELSE st.y
        t1 == IF st.d > 0 THEN WrapI32(x1) - WrapI32(y1) ELSE WrapI32(x1)
        t2 == 4 * WrapI32(t1)
        t3 == st.d + WrapI32(t2)
        d1 == WrapI32(t3) + (IF st.d > 0 THEN 10 ELSE 6)
    IN  IF st.status # "run" THEN st
        ELSE IF st.y < st.x THEN [st EXCEPT !.status = "done"]
        ELSE IF overflow_checks
                /\ (pl.ovf \/ ~FitsI32(x1) \/ ~FitsI32(y1) \/ ~FitsI32(t1)
                    \/ ~FitsI32(t2) \/ ~FitsI32(t3) \/ ~FitsI32(d1))
        THEN [st EXCEPT !.status = "panic"]
        ELSE [x |-> WrapI32(x1), y |-> WrapI32(y1), d |-> WrapI32(d1),
              writes |-> st.writes \cup pl.writes, status |-> "run"]

RECURSIVE CircleRun(_, _, _)
CircleRun(st, c, n) ==
    IF st.status # "run" THEN st
    ELSE IF n <= 1 THEN CircleStep(st, c)
    ELSE LET half == CircleRun(st, c, n \div 2)
         IN  CircleRun(half, c, n - (n \div 2))

graphics_circle_outline_draw(cx, cy, r) ==
    LET r_i32 == WrapI32(r)
        t == 2 * r_i32
        d0 == 3 - WrapI32(t)
        c == [cx |-> cx, cy |-> cy, w |-> WrapI32(width),
              h |-> WrapI32(height), len |-> Len(framebuffer)]
    IN  IF overflow_checks /\ (~FitsI32(t) \/ ~FitsI32(d0))
        THEN DrawPanic
        ELSE LET end == CircleRun([x |-> 0, y |-> r_i32, d |-> WrapI32(d0),
                                   writes |-> {}, status |-> "run"], c,
                                  LoopFuel)
             IN  IF end.status = "panic" THEN DrawPanic
                 ELSE IF end.status = "run"
                 THEN [panic |-> FALSE, hang |-> TRUE, writes |-> end.writes]
                 ELSE DrawIdx(end.writes, c.len)

\* utils.rs tri_edge: i32 operands widened to i64, i64 product and difference.
tri_edge(a, b, c) ==
    LET p1 == (c[1] - a[1]) * (b[2] - a[2])
        p2 == (c[2] - a[2]) * (b[1] - a[1])
        df == WrapI64(p1) - WrapI64(p2)
    IN  [ovf |-> ~FitsI64(p1) \/ ~FitsI64(p2) \/ ~FitsI64(df),
         v |-> WrapI64(df)]

\* `tri_edge(..) * sign` of graphics_triangle.
EdgeSigned(a, b, p, sign) ==
    LET e == tri_edge(a, b, p)
        m == e.v * sign
    IN  [ovf |-> e.ovf \/ ~FitsI64(m), v |-> WrapI64(m)]

\* A fill without the zero-area early return.
graphics_triangle_draw_no_area_test(v0, v1, v2) ==
    LET w == WrapI32(width)
        h == WrapI32(height)
        area == tri_edge(v0, v1, v2)
        min_x == Max2(Min2(Min2(v0[1], v1[1]), v2[1]), 0)
        max_x == Min2(Max2(Max2(v0[1], v1[1]), v2[1]), w - 1)
        min_y == Max2(Min2(Min2(v0[2], v1[2]), v2[2]), 0)
        max_y == Min2(Max2(Max2(v0[2], v1[2]), v2[2]), h - 1)
        sign == IF area.v > 0 THEN 1 ELSE -1
        box == (min_x..max_x) \X (min_y..max_y)
        w0(p) == EdgeSigned(v1, v2, p, sign)
        w1(p) == EdgeSigned(v2, v0, p, sign)
        w2(p) == EdgeSigned(v0, v1, p, sign)
        inside(p) == w0(p).v >= 0 /\ w1(p).v >= 0 /\ w2(p).v >= 0
    IN  IF w <= 0 \/ h <= 0 THEN DrawOk({})
        ELSE IF overflow_checks /\ area.ovf THEN DrawPanic
        ELSE IF min_x > max_x \/ min_y > max_y THEN DrawOk({})
        ELSE IF overflow_checks
                /\ \E p \in box : w0(p).ovf \/ w1(p).ovf \/ w2(p).ovf
        THEN DrawPanic
        ELSE DrawIdx({p[2] * width + p[1] : p \in {q \in box : inside(q)}},
                     Len(framebuffer))

graphics_triangle_draw(v0, v1, v2) ==
    LET w == WrapI32(width)
        h == WrapI32(height)
        area == tri_edge(v0, v1, v2)
        min_x == Max2(Min2(Min2(v0[1], v1[1]), v2[1]), 0)
        max_x == Min2(Max2(Max2(v0[1], v1[1]), v2[1]), w - 1)
        min_y == Max2(Min2(Min2(v0[2], v1[2]), v2[2]), 0)
        max_y == Min2(Max2(Max2(v0[2], v1[2]), v2[2]), h - 1)
        sign == IF area.v > 0 THEN 1 ELSE -1
        box == (min_x..max_x) \X (min_y..max_y)
        w0(p) == EdgeSigned(v1, v2, p, sign)
        w1(p) == EdgeSigned(v2, v0, p, sign)
        w2(p) == EdgeSigned(v0, v1, p, sign)
        inside(p) == w0(p).v >= 0 /\ w1(p).v >= 0 /\ w2(p).v >= 0
    IN  IF w <= 0 \/ h <= 0 THEN DrawOk({})
        ELSE IF overflow_checks /\ area.ovf THEN DrawPanic
        ELSE IF area.v = 0 THEN DrawOk({})
        ELSE IF min_x > max_x \/ min_y > max_y THEN DrawOk({})
        ELSE IF overflow_checks
                /\ \E p \in box : w0(p).ovf \/ w1(p).ovf \/ w2(p).ovf
        THEN DrawPanic
        ELSE DrawIdx({p[2] * width + p[1] : p \in {q \in box : inside(q)}},
                     Len(framebuffer))

\* A draw host call: runs the primitive, stores the draw color at the indices
\* it produced, or records the panic.
Draw(op, args, eff) ==
    /\ ~panicked
    /\ draws < MaxDraws
    /\ draws' = draws + 1
    /\ IF eff.panic \/ eff.hang
       THEN /\ panicked' = TRUE
            /\ UNCHANGED framebuffer
            /\ last' = Call(op, args, IF eff.panic THEN "panic" ELSE "hang")
       ELSE /\ panicked' = FALSE
            /\ framebuffer' = ApplyWrites(framebuffer, eff.writes, draw_color)
            /\ last' = Call(op, args, "ok")
    /\ UNCHANGED << aux_vars, core_vars, overflow_checks, width, height, draw_color, audio_vars,
                    memory, kv, res >>

graphics_point(x, y) == Draw("point", << x, y >>, graphics_point_draw(x, y))
graphics_line(x0, y0, x1, y1) ==
    Draw("line", << x0, y0, x1, y1 >>, graphics_line_draw(x0, y0, x1, y1))
graphics_rect(x, y, w, h) ==
    Draw("rect", << x, y, w, h >>, graphics_rect_draw(x, y, w, h))
graphics_circle(cx, cy, r) ==
    Draw("circle", << cx, cy, r >>, graphics_circle_draw(cx, cy, r))
graphics_circle_outline(cx, cy, r) ==
    Draw("circle_outline", << cx, cy, r >>,
         graphics_circle_outline_draw(cx, cy, r))
graphics_triangle(v0, v1, v2) ==
    Draw("triangle", << v0[1], v0[2], v1[1], v1[2], v2[1], v2[2] >>,
         graphics_triangle_draw(v0, v1, v2))

(***************************************************************************)
(* state/mod.rs, av/resources.rs: construction and unload.                 *)
(***************************************************************************)
EmptyMap == [k \in {} |-> 0]

ResourcesDefault ==
    [svgs |-> EmptyMap, gifs |-> EmptyMap, fonts |-> EmptyMap,
     keyed_svgs |-> EmptyMap, keyed_gifs |-> EmptyMap,
     keyed_pngs |-> EmptyMap, keyed_fonts |-> EmptyMap, next_id |-> 0]

\* The host threads of the lock model, and the two mutexes: GLOBAL_STATE
\* and RESOURCES.
MaxThreads == 2
Threads == 1..MaxThreads
Mutexes == { "global", "resources" }

\* The upload-ABI ring buffer of AudioState::default().
RingDefault ==
    [capacity_frames |-> 0, write_index_frames |-> 0,
     read_index_frames |-> 0]

\* No mutex held, no host call in progress, the default ring buffer.
AuxInit ==
    /\ lock_owner = [m \in Mutexes |-> 0]
    /\ call_chain = [t \in Threads |-> << >>]
    /\ ring = RingDefault

\* GlobalState::default() and Resources::default(), in either build profile.
Init ==
    /\ overflow_checks \in BOOLEAN
    /\ panicked = FALSE
    /\ width = 0
    /\ height = 0
    /\ framebuffer = << >>
    /\ draw_color = 0
    /\ draws = 0
    /\ handle = FALSE
    /\ memory = << >>
    /\ sample_rate = 0
    /\ host_queue = << >>
    /\ channels = << >>
    /\ uploaded = << >>
    /\ kv = EmptyMap
    /\ res = ResourcesDefault
    /\ game_data = << >>
    /\ module = << >>
    /\ instance = << >>
    /\ entrypoints = << >>
    /\ steps = << >>
    /\ AuxInit
    /\ last = Call("init", << >>, "ok")

\* The assignments of clear_on_unload: transient pointers, video and audio
\* state back to their defaults.  RESOURCES is a separate global and is not
\* touched.
clear_on_unload_body ==
    /\ width' = 0
    /\ height' = 0
    /\ framebuffer' = << >>
    /\ draw_color' = 0
    /\ draws' = 0
    /\ handle' = FALSE
    /\ memory' = << >>
    /\ sample_rate' = 0
    /\ host_queue' = << >>
    /\ channels' = << >>

clear_on_unload ==
    /\ ~panicked
    /\ clear_on_unload_body
    /\ last' = Call("unload", << >>, "ok")
    /\ UNCHANGED << aux_vars, core_vars, overflow_checks, panicked, uploaded, kv, res >>

(***************************************************************************)
(* Rasterizer specification: any sequence of resize, color, clear, draw    *)
(* and unload calls, with arguments from the edges of the integer ranges.  *)
(***************************************************************************)
Half == 2^((WordBits + 1) \div 2)

GfxSizes == { << 0, 2 >>, << 2, 0 >>, << 2, 2 >>, << 3, 2 >>, << 2, 3 >>,
              << 3, 3 >>, << Half, 2 >>, << Half, Half >> }
GfxColors == { << 0, 0, 0 >>, << 255, 0, 0 >> }
GfxPts == { << 0, 0 >>, << 1, 1 >>, << 2, -1 >>, << -1, 2 >>,
            << 2 - Half, 2 - Half >>, << I32Min, I32Min >>,
            << I32Max, 0 >>, << 1, I32Max >> }
GfxTriPts == { << 0, 0 >>, << 2, 0 >>, << 0, 2 >>, << I32Min, -1 >>,
               << 0, I32Max >>, << I32Max, -2 >> }
GfxExtents == { 0, 1, 3, I32Max + 1, U32Max }
GfxRadii == { 0, 1, 2, Half - 4, Half, U32Max }

NextGfx ==
    \/ \E s \in GfxSizes : graphics_set_size(s[1], s[2])
    \/ \E c \in GfxColors : graphics_set_color(c[1], c[2], c[3], 255)
    \/ \E c \in GfxColors : graphics_background(c[1], c[2], c[3])
    \/ \E p \in GfxPts : graphics_point(p[1], p[2])
    \/ \E p \in GfxPts, q \in GfxPts : graphics_line(p[1], p[2], q[1], q[2])
    \/ \E p \in GfxPts, w \in GfxExtents, h \in GfxExtents :
          graphics_rect(p[1], p[2], w, h)
    \/ \E p \in GfxPts, r \in GfxRadii : graphics_circle(p[1], p[2], r)
    \/ \E p \in GfxPts, r \in GfxRadii : graphics_circle_outline(p[1], p[2], r)
    \/ \E a \in GfxTriPts, b \in GfxTriPts, c \in GfxTriPts :
          graphics_triangle(a, b, c)
    \/ clear_on_unload

SpecGfx == Init /\ [][NextGfx]_vars

(***************************************************************************)
(* Claims about the rasterizer.                                            *)
(***************************************************************************)
ShapeOps == { "point", "line", "rect", "circle", "circle_outline", "triangle" }

OnScreen == (0..(width - 1)) \X (0..(height - 1))

\* Whether pixel p can belong to the shape of call (op, a), in exact integer
\* geometry: the shape itself for point, rectangle and disc, the bounding box
\* of the vertices for line, circle outline and triangle.
ShapeCovers(op, a, p) ==
    CASE op = "point" -> p = << a[1], a[2] >>
      [] op = "line" ->
            /\ Min2(a[1], a[3]) <= p[1] /\ p[1] <= Max2(a[1], a[3])
            /\ Min2(a[2], a[4]) <= p[2] /\ p[2] <= Max2(a[2], a[4])
      [] op = "rect" ->
            /\ a[1] <= p[1] /\ p[1] < a[1] + a[3]
            /\ a[2] <= p[2] /\ p[2] < a[2] + a[4]
      [] op = "circle" ->
            (p[1] - a[1]) * (p[1] - a[1]) + (p[2] - a[2]) * (p[2] - a[2])
               <= a[3] * a[3]
      [] op = "circle_outline" ->
            /\ a[1] - a[3] <= p[1] /\ p[1] <= a[1] + a[3]
            /\ a[2] - a[3] <= p[2] /\ p[2] <= a[2] + a[3]
      [] op = "triangle" ->
            /\ Min2(Min2(a[1], a[3]), a[5]) <= p[1]
            /\ p[1] <= Max2(Max2(a[1], a[3]), a[5])
            /\ Min2(Min2(a[2], a[4]), a[6]) <= p[2]
            /\ p[2] <= Max2(Max2(a[2], a[4]), a[6])

EntirelyOutside(op, a) == \A p \in OnScreen : ~ShapeCovers(op, a, p)

\* C1: every point, line, rectangle, circle and triangle call completes
\* without error, stores only at indices inside the framebuffer (a store
\* outside it is a panic), and a shape that lies entirely outside the
\* framebuffer changes no pixel.
C1_ShapesClipAndNeverFail ==
    [][ last'.op \in ShapeOps =>
          /\ last'.ret = "ok"
          /\ (EntirelyOutside(last'.op, last'.args)
                => framebuffer' = framebuffer) ]_vars

\* C2: the framebuffer length equals width * height in every state.
C2_LenIsWidthTimesHeight == Len(framebuffer) = width * height

\* Twice the signed area of the triangle of call arguments a, in exact
\* integers.
TriArea2(a) ==
    (a[5] - a[1]) * (a[4] - a[2]) - (a[6] - a[2]) * (a[3] - a[1])

\* The six orderings of the three vertices of call arguments a.
VertexOrders(a) ==
    LET v == << << a[1], a[2] >>, << a[3], a[4] >>, << a[5], a[6] >> >>
    IN  { << v[i], v[j], v[k] >> :
            << i, j, k >> \in { t \in (1..3) \X (1..3) \X (1..3) :
                                  t[1] # t[2] /\ t[2] # t[3] /\ t[1] # t[3] } }

\* C4: a fill of a non-collinear triangle has the same outcome, and so the
\* same pixel set, for every ordering of its three vertices.
C4_TriangleWindingInvariant ==
    (last.op = "triangle" /\ TriArea2(last.args) # 0) =>
        \A o \in VertexOrders(last.args), q \in VertexOrders(last.args) :
            graphics_triangle_draw(o[1], o[2], o[3])
              = graphics_triangle_draw(q[1], q[2], q[3])

(***************************************************************************)
(* Guest linear memory (av/utils.rs, runtime/runtime.rs).                  *)
(***************************************************************************)
\* The bytes of the instantiated guest's linear memory.  Offsets 0, 2, 4, 6
\* and 11 start with the first signature byte of a PNG, GIF, TrueType, SVG
\* and WAV asset, offset 7 is not valid UTF-8, offsets 8 and 9 hold the
\* strings "k" and "e-acute", offsets 12 and 14 the samples i16::MAX and
\* i16::MIN in little-endian order.
GuestImage ==
    << 137, 1, 71, 2, 0, 3, 60, 255, 107, 195, 169, 82, 255, 127, 0, 128 >>

\* Runtime::instantiate: registers the instance's exported memory, if any.
instantiate(exports_memory) ==
    /\ ~panicked
    /\ memory' = IF exports_memory THEN << GuestImage >> ELSE memory
    /\ last' = Call("instantiate", << exports_memory >>, "ok")
    /\ UNCHANGED << aux_vars, core_vars, overflow_checks, panicked, gfx_vars, audio_vars, kv, res >>

\* Memory::read(offset, buf): the len bytes at offset ptr, or an error when
\* the range does not lie inside the memory.
mem_read(ptr, len) ==
    IF ptr + len <= Len(memory[1])
    THEN [ok |-> TRUE, data |-> SubSeq(memory[1], ptr + 1, ptr + len)]
    ELSE [ok |-> FALSE, data |-> << >>]

\* Memory::write(offset, data): the memory after the store, or an error.
mem_write(ptr, data) ==
    IF ptr + Len(data) <= Len(memory[1])
    THEN [ok |-> TRUE,
          mem |-> [i \in 1..Len(memory[1]) |->
                     IF i > ptr /\ i <= ptr + Len(data)
                     THEN data[i - ptr] ELSE memory[1][i]]]
    ELSE [ok |-> FALSE, mem |-> memory[1]]

\* read_guest_bytes: a copy of exactly len bytes, MissingMemory without an
\* exported memory, MemoryReadFailed when the range is outside it.
read_guest_bytes(ptr, len) ==
    IF memory = << >> THEN [ok |-> FALSE, err |-> "MissingMemory", data |-> << >>]
    ELSE IF ~mem_read(ptr, len).ok
    THEN [ok |-> FALSE, err |-> "MemoryReadFailed", data |-> << >>]
    ELSE [ok |-> TRUE, err |-> "", data |-> mem_read(ptr, len).data]

\* guest_alloc: no allocator is wired, the result is always None.
guest_alloc(len) == << >>

\* core::str::from_utf8(bytes).is_ok(), from position i on.
RECURSIVE Utf8From(_, _)
Utf8From(b, i) ==
    LET n == Len(b)
        c(j, lo, hi) == j <= n /\ b[j] >= lo /\ b[j] <= hi
    IN  IF i > n THEN TRUE
        ELSE IF b[i] <= 127 THEN Utf8From(b, i + 1)
        ELSE IF c(i, 194, 223) THEN c(i + 1, 128, 191) /\ Utf8From(b, i + 2)
        ELSE IF b[i] = 224
        THEN c(i + 1, 160, 191) /\ c(i + 2, 128, 191) /\ Utf8From(b, i + 3)
        ELSE IF c(i, 225, 236) \/ c(i, 238, 239)
        THEN c(i + 1, 128, 191) /\ c(i + 2, 128, 191) /\ Utf8From(b, i + 3)
        ELSE IF b[i] = 237
        THEN c(i + 1, 128, 159) /\ c(i + 2, 128, 191) /\ Utf8From(b, i + 3)
        ELSE IF b[i] = 240
        THEN /\ c(i + 1, 144, 191) /\ c(i + 2, 128, 191)
             /\ c(i + 3, 128, 191) /\ Utf8From(b, i + 4)
        ELSE IF c(i, 241, 243)
        THEN /\ c(i + 1, 128, 191) /\ c(i + 2, 128, 191)
             /\ c(i + 3, 128, 191) /\ Utf8From(b, i + 4)
        ELSE IF b[i] = 244
        THEN /\ c(i + 1, 128, 143) /\ c(i + 2, 128, 191)
             /\ c(i + 3, 128, 191) /\ Utf8From(b, i + 4)
        ELSE FALSE

from_utf8(bytes) == Utf8From(bytes, 1)

(***************************************************************************)
(* av/audio.rs: host sample queue, playback channels, per-run drain.       *)
(***************************************************************************)
MaxQueue == 2
MaxChannels == 1

I16Max == 32767
I16Min == -32768
AudioInitHint == 1024
FramesPerSecond == 60

\* `v as i16` of an i32.
WrapI16(v) == ((v - I16Min) % 65536) + I16Min

\* The sum wrapped to 16 bits instead of clamped.
sat_add_i16_wrapping(a, b) == WrapI16(a + b)

\* utils.rs sat_add_i16: the i32 sum clamped to the i16 range.
sat_add_i16(a, b) ==
    LET s == a + b
    IN  IF s > I16Max THEN I16Max
        ELSE IF s < I16Min THEN I16Min
        ELSE WrapI16(s)

\* i16::from_le_bytes([b0, b1]).
from_le_bytes(b0, b1) == WrapI16(b0 + 256 * b1)

\* The chunks_exact(2) loop of audio_push_samples.
SamplesFromBytes(bytes) ==
    [i \in 1..(Len(bytes) \div 2) |->
        from_le_bytes(bytes[2 * i - 1], bytes[2 * i])]

\* Core::on_run, first step: the front-end's handle becomes the output sink.
set_runtime_handle ==
    /\ ~panicked
    /\ handle' = TRUE
    /\ last' = Call("set_runtime_handle", << >>, "ok")
    /\ UNCHANGED << aux_vars, core_vars, overflow_checks, panicked, gfx_vars, memory, sample_rate,
                    host_queue, channels, uploaded, kv, res >>

audio_init(rate) ==
    /\ ~panicked
    /\ sample_rate' = rate
    /\ last' = Call("audio_init", << rate >>, AudioInitHint)
    /\ UNCHANGED << aux_vars, core_vars, overflow_checks, panicked, gfx_vars, memory, handle,
                    host_queue, channels, uploaded, kv, res >>

audio_push_samples(ptr, count) ==
    /\ ~panicked
    /\ Len(host_queue) < MaxQueue
    /\ LET byte_len == count * 2
           ret == IF memory = << >> THEN "MissingMemory"
                  ELSE IF ~FitsU32(byte_len) THEN "MemoryReadFailed"
                  ELSE IF ~mem_read(ptr, byte_len).ok THEN "MemoryReadFailed"
                  ELSE "Ok"
       IN  /\ host_queue' =
                 IF ret = "Ok"
                 THEN host_queue
                        \o SamplesFromBytes(mem_read(ptr, byte_len).data)
                 ELSE host_queue
           /\ last' = Call("audio_push_samples", << ptr, count >>, ret)
    /\ UNCHANGED << aux_vars, core_vars, overflow_checks, panicked, gfx_vars, memory, handle,
                    sample_rate, channels, uploaded, kv, res >>

\* (pcm as f32 * volume * pan) as i16 with volume = volume_q8_8 / 256 and
\* pan = pan_num / 32768: the product pcm * volume_q8_8 * pan_num divided by
\* 2^23, truncated toward zero and saturated.  The division is split in two
\* so that no intermediate value exceeds the checker's integers.
ScaleSample(pcm, volume_q8_8, pan_num) ==
    LET x == pcm * volume_q8_8
        m == Abs(x)
        q == ((m \div 4096) * pan_num + ((m % 4096) * pan_num) \div 4096)
                \div 2048
        v == IF x >= 0 THEN q ELSE -q
    IN  Max2(I16Min, Min2(I16Max, v))

\* The WAV decoder (hound): accepts input that starts with the RIFF
\* signature byte; the rest is taken as mono little-endian i16 samples.
WavDecode(bytes) ==
    IF Len(bytes) >= 1 /\ bytes[1] = 82
    THEN [ok |-> TRUE, channels |-> 1,
          samples |-> SamplesFromBytes(Tail(bytes))]
    ELSE [ok |-> FALSE, channels |-> 0, samples |-> << >>]

audio_play_wav(ptr, len) ==
    /\ ~panicked
    /\ Len(channels) < MaxChannels
    /\ LET wav == WavDecode(mem_read(ptr, len).data)
           pcm == [i \in 1..(2 * Len(wav.samples)) |->
                     wav.samples[(i + 1) \div 2]]
           ok == memory # << >> /\ mem_read(ptr, len).ok /\ wav.ok
       IN  /\ channels' =
                 IF ok
                 THEN Append(channels,
                             [active |-> TRUE, volume_q8_8 |-> 256,
                              pan_i16 |-> 0, loop_enabled |-> TRUE,
                              pcm_stereo |-> pcm, position_frames |-> 0])
                 ELSE channels
           /\ last' = Call("audio_play_wav", << ptr, len >>,
                           IF ok THEN "played" ELSE "ignored")
    /\ UNCHANGED << aux_vars, core_vars, overflow_checks, panicked, gfx_vars, memory, handle,
                    sample_rate, host_queue, uploaded, kv, res >>

\* A channel pass that advances the position by the whole target, whether
\* or not the channel has that many frames left.
MixChannel_advance_by_target(ch, mixed, target_frames) ==
    LET channel_frames == Len(ch.pcm_stereo) \div 2
        at_end == ch.position_frames >= channel_frames
        start_frame == IF at_end THEN 0 ELSE ch.position_frames
        frames_to_mix == Min2(channel_frames - start_frame, target_frames)
        pan_left == IF ch.pan_i16 <= 0 THEN 32768 ELSE 32768 - ch.pan_i16
        pan_right == IF ch.pan_i16 >= 0 THEN 32768 ELSE 32768 + ch.pan_i16
        src(i) == ScaleSample(ch.pcm_stereo[start_frame * 2 + i],
                              ch.volume_q8_8,
                              IF i % 2 = 1 THEN pan_left ELSE pan_right)
    IN  IF ~ch.active THEN [ch |-> ch, mixed |-> mixed]
        ELSE IF at_end /\ ~ch.loop_enabled
        THEN [ch |-> [ch EXCEPT !.active = FALSE], mixed |-> mixed]
        ELSE [ch |-> [ch EXCEPT !.position_frames =
                                    start_frame + target_frames],
              mixed |-> [i \in 1..Len(mixed) |->
                           IF i <= 2 * frames_to_mix
                           THEN sat_add_i16(mixed[i], src(i))
                           ELSE mixed[i]]]

\* One pass of the `for channel in &mut s.audio.channels` loop body of
\* audio_drain_host: the channel and the mix buffer after it.
MixChannel(ch, mixed, target_frames) ==
    LET channel_frames == Len(ch.pcm_stereo) \div 2
        at_end == ch.position_frames >= channel_frames
        start_frame == IF at_end THEN 0 ELSE ch.position_frames
        frames_to_mix == Min2(channel_frames - start_frame, target_frames)
        pan_left == IF ch.pan_i16 <= 0 THEN 32768 ELSE 32768 - ch.pan_i16
        pan_right == IF ch.pan_i16 >= 0 THEN 32768 ELSE 32768 + ch.pan_i16
        src(i) == ScaleSample(ch.pcm_stereo[start_frame * 2 + i],
                              ch.volume_q8_8,
                              IF i % 2 = 1 THEN pan_left ELSE pan_right)
    IN  IF ~ch.active THEN [ch |-> ch, mixed |-> mixed]
        ELSE IF at_end /\ ~ch.loop_enabled
        THEN [ch |-> [ch EXCEPT !.active = FALSE], mixed |-> mixed]
        ELSE [ch |-> [ch EXCEPT !.position_frames =
                                    start_frame + frames_to_mix],
              mixed |-> [i \in 1..Len(mixed) |->
                           IF i <= 2 * frames_to_mix
                           THEN sat_add_i16(mixed[i], src(i))
                           ELSE mixed[i]]]

\* The channel loop over the first n channels, in vector order.
RECURSIVE MixChannels(_, _, _, _)
MixChannels(chs, mixed, target_frames, n) ==
    IF n = 0 THEN [chs |-> chs, mixed |-> mixed]
    ELSE LET before == MixChannels(chs, mixed, target_frames, n - 1)
             step == MixChannel(before.chs[n], before.mixed, target_frames)
         IN  [chs |-> [before.chs EXCEPT ![n] = step.ch],
              mixed |-> step.mixed]

\* The target of a drain that ignores the per-run minimum when the caller
\* names a frame count.
TargetFrames_no_minimum(max_frames, rate) ==
    IF max_frames = 0 THEN rate \div FramesPerSecond ELSE max_frames

\* target_frames of audio_drain_host.
TargetFrames(max_frames, rate) ==
    LET min_samples_per_run == (rate \div FramesPerSecond) * 2
    IN  IF max_frames = 0 THEN min_samples_per_run \div 2
        ELSE Max2(max_frames, min_samples_per_run \div 2)

\* A drain that leaves the last sample it took at the head of the queue.
host_queue_drain_keeps_last(q, samples_to_take) ==
    [drained |-> SubSeq(q, 1, samples_to_take),
     rest |-> SubSeq(q, Max2(samples_to_take, 1), Len(q))]

\* host_queue.drain(0..samples_to_take): the samples taken, oldest first,
\* and the queue that is left.
host_queue_drain(q, samples_to_take) ==
    [drained |-> SubSeq(q, 1, samples_to_take),
     rest |-> SubSeq(q, samples_to_take + 1, Len(q))]

\* audio_drain_host past the handle check, run on queue q, channels chs and
\* output rate: the queue and channels it leaves, the buffer it uploads and
\* the frame count it returns.
drain_mix(q, chs, rate, max_frames) ==
    LET target_frames == TargetFrames(max_frames, rate)
        frames_to_take == Min2(Len(q) \div 2, target_frames)
        taken == host_queue_drain(q, frames_to_take * 2)
        queued == [i \in 1..(target_frames * 2) |->
                     IF i <= Len(taken.drained)
                     THEN sat_add_i16(0, taken.drained[i]) ELSE 0]
        out == MixChannels(chs, queued, target_frames, Len(chs))
    IN  [host_queue |-> taken.rest, channels |-> out.chs,
         mixed |-> out.mixed, ret |-> WrapU32(Len(out.mixed) \div 2)]

audio_drain_host(max_frames) ==
    /\ ~panicked
    /\ IF ~handle
       THEN /\ last' = Call("audio_drain_host", << max_frames >>, 0)
            /\ UNCHANGED << host_queue, channels, uploaded >>
       ELSE LET out == drain_mix(host_queue, channels, sample_rate,
                                max_frames)
            IN  /\ host_queue' = out.host_queue
                /\ channels' = out.channels
                /\ uploaded' = out.mixed
                /\ last' = Call("audio_drain_host", << max_frames >>,
                                out.ret)
    /\ UNCHANGED << aux_vars, core_vars, overflow_checks, panicked, gfx_vars, memory,
                    handle, sample_rate, kv, res >>

(***************************************************************************)
(* av/storage.rs: the key-value bridge.                                    *)
(***************************************************************************)
\* An insert that keeps the value already stored under the key.
MapInsert_keep_first(m, k, v) ==
    [x \in (DOMAIN m) \cup {k} |-> IF x \in DOMAIN m THEN m[x] ELSE v]

\* HashMap::insert: the value under k is v, every other entry is kept.
MapInsert(m, k, v) ==
    [x \in (DOMAIN m) \cup {k} |-> IF x = k THEN v ELSE m[x]]

\* A save that stores without validating the key as UTF-8.
storage_save_kv_any_key(key_ptr, key_len, data_ptr, data_len) ==
    IF memory = << >> THEN kv
    ELSE IF ~mem_read(key_ptr, key_len).ok THEN kv
    ELSE IF ~mem_read(data_ptr, data_len).ok THEN kv
    ELSE MapInsert(kv, mem_read(key_ptr, key_len).data,
                   mem_read(data_ptr, data_len).data)

\* The key-value map after storage_save.
storage_save_kv(key_ptr, key_len, data_ptr, data_len) ==
    IF memory = << >> THEN kv
    ELSE IF ~mem_read(key_ptr, key_len).ok THEN kv
    ELSE IF ~from_utf8(mem_read(key_ptr, key_len).data) THEN kv
    ELSE IF ~mem_read(data_ptr, data_len).ok THEN kv
    ELSE MapInsert(kv, mem_read(key_ptr, key_len).data,
                   mem_read(data_ptr, data_len).data)

storage_save(key_ptr, key_len, data_ptr, data_len) ==
    /\ ~panicked
    /\ kv' = storage_save_kv(key_ptr, key_len, data_ptr, data_len)
    /\ last' = Call("storage_save",
                    << key_ptr, key_len, data_ptr, data_len >>, "()")
    /\ UNCHANGED << aux_vars, core_vars, overflow_checks, panicked, gfx_vars, audio_vars, memory,
                    res >>

\* storage_load: the returned packed (ptr << 32) | len and the guest memory
\* after the call.
storage_load_out(key_ptr, key_len) ==
    LET key == mem_read(key_ptr, key_len)
        data == kv[key.data]
        dst == guest_alloc(WrapU32(Len(data)))
        wr == mem_write(dst[1], data)
        nothing == [ret |-> 0, memory |-> memory]
    IN  IF memory = << >> THEN nothing
        ELSE IF ~key.ok THEN nothing
        ELSE IF ~from_utf8(key.data) THEN nothing
        ELSE IF key.data \notin DOMAIN kv THEN nothing
        ELSE IF dst = << >> THEN nothing
        ELSE IF ~wr.ok THEN nothing
        ELSE [ret |-> dst[1] * U32Mod + WrapU32(Len(data)),
              memory |-> << wr.mem >>]

storage_load(key_ptr, key_len) ==
    /\ ~panicked
    /\ memory' = storage_load_out(key_ptr, key_len).memory
    /\ last' = Call("storage_load", << key_ptr, key_len >>,
                    storage_load_out(key_ptr, key_len).ret)
    /\ UNCHANGED << aux_vars, core_vars, overflow_checks, panicked, gfx_vars, audio_vars, kv, res >>

(***************************************************************************)
(* Audio specification: a guest that initialises audio, pushes samples,    *)
(* starts playback, and a front-end that runs frames and unloads.          *)
(***************************************************************************)
AudioRates == { 0, 120, U32Max }
AudioSampleRegions == { << 12, 1 >>, << 12, 2 >>, << 15, 1 >> }
AudioWavRegions == { << 11, 3 >>, << 11, 5 >>, << 0, 2 >>, << 15, 2 >> }
AudioDrainFrames == { 0, 3 }

NextAudio ==
    \/ \E m \in BOOLEAN : instantiate(m)
    \/ set_runtime_handle
    \/ \E r \in AudioRates : audio_init(r)
    \/ \E r \in AudioSampleRegions : audio_push_samples(r[1], r[2])
    \/ \E r \in AudioWavRegions : audio_play_wav(r[1], r[2])
    \/ \E n \in AudioDrainFrames : audio_drain_host(n)
    \/ clear_on_unload

SpecAudio == Init /\ [][NextAudio]_vars

(***************************************************************************)
(* Guest-memory specification: sample pushes and key-value saves and loads *)
(* with ranges inside, across and beyond the guest's memory.               *)
(***************************************************************************)
MemSampleRegions == { << 12, 1 >>, << 15, 1 >>, << 0, I32Max + 1 >>,
                      << U32Max, 1 >> }
MemKeyRegions == { << 8, 1 >>, << 9, 2 >>, << 7, 1 >>, << 16, 1 >> }
MemDataRegions == { << 0, 2 >>, << 16, 0 >>, << 15, 2 >>, << 1, U32Max >> }

NextMem ==
    \/ \E m \in BOOLEAN : instantiate(m)
    \/ \E r \in MemSampleRegions : audio_push_samples(r[1], r[2])
    \/ \E k \in MemKeyRegions, d \in MemDataRegions :
          storage_save(k[1], k[2], d[1], d[2])
    \/ \E k \in MemKeyRegions : storage_load(k[1], k[2])
    \/ clear_on_unload

SpecMem == Init /\ [][NextMem]_vars

(***************************************************************************)
(* Mixing-sum specification: sat_add_i16 applied to pairs of samples from  *)
(* the ends and the middle of the i16 range.                               *)
(***************************************************************************)
I16Samples == { I16Min, I16Min + 1, -16384, -2, -1, 0, 1, 2, 16384,
                I16Max - 1, I16Max }

InitSat ==
    /\ overflow_checks \in BOOLEAN
    /\ panicked = FALSE
    /\ width = 0
    /\ height = 0
    /\ framebuffer = << >>
    /\ draw_color = 0
    /\ draws = 0
    /\ handle = FALSE
    /\ memory = << >>
    /\ sample_rate = 0
    /\ host_queue = << >>
    /\ channels = << >>
    /\ uploaded = << >>
    /\ kv = EmptyMap
    /\ res = ResourcesDefault
    /\ game_data = << >>
    /\ module = << >>
    /\ instance = << >>
    /\ entrypoints = << >>
    /\ steps = << >>
    /\ AuxInit
    /\ \E a \in I16Samples, b \in I16Samples :
          last = Call("mix_operands", << a, b >>, "none")

MixPair ==
    /\ last.op = "mix_operands"
    /\ last' = Call("sat_add_i16", last.args,
                    sat_add_i16(last.args[1], last.args[2]))
    /\ UNCHANGED << aux_vars, core_vars, overflow_checks, panicked, gfx_vars, audio_vars, memory,
                    kv, res >>

NextSat == MixPair

SpecSat == InitSat /\ [][NextSat]_vars

(***************************************************************************)
(* Claims about guest memory, audio and storage.                           *)
(***************************************************************************)
\* The little-endian bytes of a sequence of i16 samples.
LEBytes(samples) ==
    [i \in 1..(2 * Len(samples)) |->
        LET u == samples[(i + 1) \div 2] % 65536
        IN  IF i % 2 = 1 THEN u % 256 ELSE u \div 256]

\* Whether the guest range (ptr, len) lies inside the registered memory.
RangeInMemory(ptr, len) == memory # << >> /\ ptr + len <= Len(memory[1])

\* What C3 requires of an audio_push_samples step.
PushContract ==
    LET ptr == last'.args[1]
        count == last'.args[2]
        n == Len(host_queue)
    IN  /\ ~panicked'
        /\ kv' = kv
        /\ IF RangeInMemory(ptr, 2 * count) /\ 2 * count <= U32Max
           THEN /\ Len(host_queue') = n + count
                /\ SubSeq(host_queue', 1, n) = host_queue
                /\ LEBytes(SubSeq(host_queue', n + 1, n + count))
                     = SubSeq(memory[1], ptr + 1, ptr + 2 * count)
           ELSE host_queue' = host_queue /\ last'.ret # "Ok"

\* What C3 requires of a storage_save step; key_ok says which keys the save
\* must accept.
SaveContract(key_ok(_)) ==
    LET a == last'.args
        key == SubSeq(memory[1], a[1] + 1, a[1] + a[2])
        data == SubSeq(memory[1], a[3] + 1, a[3] + a[4])
    IN  /\ ~panicked'
        /\ host_queue' = host_queue
        /\ IF RangeInMemory(a[1], a[2]) /\ RangeInMemory(a[3], a[4])
              /\ key_ok(key)
           THEN /\ DOMAIN kv' = (DOMAIN kv) \cup {key}
                /\ kv'[key] = data
                /\ \A k \in DOMAIN kv : k # key => kv'[k] = kv[k]
           ELSE kv' = kv

AnyKey(key) == TRUE

\* C3 as stated: without a registered memory, with a range outside it, or
\* with an overflowing count * 2, audio_push_samples and storage_save fail
\* and leave the sample queue and the key-value map unchanged; in every
\* other case exactly the bytes of the range are copied into host state.
C3_BridgeCopiesOrFails_AnyKey ==
    [][ /\ last'.op = "audio_push_samples" => PushContract
        /\ last'.op = "storage_save" => SaveContract(AnyKey) ]_vars

\* C3, amended: as above, where storage_save also fails, leaving the map
\* unchanged, when the key bytes are not valid UTF-8.
C3_BridgeCopiesOrFails ==
    [][ /\ last'.op = "audio_push_samples" => PushContract
        /\ last'.op = "storage_save" => SaveContract(from_utf8) ]_vars

C3_Witness_RangeOutsideMemory ==
    /\ last.op = "audio_push_samples"
    /\ memory # << >>
    /\ last.args[1] < Len(memory[1])
    /\ last.args[1] + 2 * last.args[2] > Len(memory[1])
    /\ last.ret = "MemoryReadFailed"

\* C5: sat_add_i16(a, b) is a + b clamped to [-32768, 32767]; a sum above
\* i16::MAX yields i16::MAX, never a negative value, and a sum below
\* i16::MIN yields i16::MIN.
C5_SatAddClamps ==
    last.op = "sat_add_i16" =>
        LET sum == last.args[1] + last.args[2]
        IN  /\ last.ret = Max2(-32768, Min2(32767, sum))
            /\ sum > 32767 => last.ret = 32767 /\ last.ret >= 0
            /\ sum < -32768 => last.ret = -32768

C5_Witness_SumAboveMax ==
    /\ last.op = "sat_add_i16"
    /\ last.args[1] + last.args[2] > 32767
    /\ last.ret = 32767

\* C6: with an output sink installed, audio_drain_host(max_frames) emits
\* and returns max(max_frames, sample_rate / 60) frames, and drain(0) with
\* an empty host queue and no active channel emits only zero samples;
\* without a sink it returns 0 and emits nothing.
C6_DrainMinimum ==
    [][ last'.op = "audio_drain_host" =>
          IF handle
          THEN /\ last'.ret = Max2(last'.args[1], sample_rate \div 60)
               /\ Len(uploaded') = 2 * last'.ret
               /\ (/\ last'.args[1] = 0
                   /\ host_queue = << >>
                   /\ \A i \in 1..Len(channels) : ~channels[i].active)
                  => /\ last'.ret >= sample_rate \div 60
                     /\ \A i \in 1..Len(uploaded') : uploaded'[i] = 0
          ELSE last'.ret = 0 /\ uploaded' = uploaded ]_vars

C6_Witness_SilentMinimumDrain ==
    /\ last.op = "audio_drain_host"
    /\ last.args[1] = 0
    /\ handle
    /\ sample_rate >= 120
    /\ channels = << >>
    /\ last.ret = sample_rate \div 60
    /\ Len(uploaded) = 2 * last.ret
    /\ \A i \in 1..Len(uploaded) : uploaded[i] = 0

\* C10: after a successful storage_save(k, d), storage_load(k) returns a
\* non-zero packed (ptr << 32) | len with len the length of d and the guest
\* memory at ptr holding d; storage_load returns 0 only for an absent key.
C10_LoadReturnsSavedValue ==
    (/\ last.op = "storage_load"
     /\ RangeInMemory(last.args[1], last.args[2])
     /\ SubSeq(memory[1], last.args[1] + 1, last.args[1] + last.args[2])
          \in DOMAIN kv)
    => LET d == kv[SubSeq(memory[1], last.args[1] + 1,
                          last.args[1] + last.args[2])]
           ptr == last.ret \div U32Mod
       IN  /\ last.ret # 0
           /\ last.ret % U32Mod = Len(d)
           /\ SubSeq(memory[1], ptr + 1, ptr + Len(d)) = d

(***************************************************************************)
(* av/resources.rs, av/graphics.rs: the keyed resource registry.           *)
(***************************************************************************)
MaxIds == 2

\* HashMap::get as an Option: << v >> or << >>.
Lookup(m, k) == IF k \in DOMAIN m THEN << m[k] >> ELSE << >>

MapRemove(m, k) == [x \in (DOMAIN m) \ {k} |-> m[x]]

\* A registry call: as Call, with the resource id or image the key resolved
\* to when the call was made.
RegCall(op, args, ret, before) ==
    [op |-> op, args |-> args, ret |-> ret, before |-> before]

\* The asset decoders (png, gif, fontdue, usvg) accept input that starts with
\* the first signature byte of their format; the decoded asset is identified
\* by the bytes it was decoded from.
Decode(kind, signature, bytes) ==
    IF Len(bytes) >= 1 /\ bytes[1] = signature
    THEN << [kind |-> kind, data |-> bytes] >>
    ELSE << >>

decode_png_to_rgba(bytes) == Decode("png", 137, bytes)
GifDecode(bytes) == Decode("gif", 71, bytes)
TtfDecode(bytes) == Decode("ttf", 0, bytes)
SvgDecode(bytes) == IF from_utf8(bytes) THEN Decode("svg", 60, bytes) ELSE << >>

\* The match of graphics_font_use_spleen: glyph cell of a built-in size.
SpleenCell(size) ==
    CASE size = 8 -> << 5, 8 >>
      [] size = 16 -> << 8, 16 >>
      [] size = 24 -> << 12, 24 >>
      [] size = 32 -> << 16, 32 >>
      [] size = 64 -> << 32, 64 >>
      [] OTHER -> << >>

\* `let id = res.next_id; res.next_id += 1; table.insert(id, asset)` on
\* registry r: the id handed out, the registry after, and whether the
\* increment overflowed in a build that checks.
Allocate(r, table, asset) ==
    [id |-> r.next_id,
     panic |-> overflow_checks /\ ~FitsU32(r.next_id + 1),
     res |-> [r EXCEPT !.next_id = WrapU32(r.next_id + 1),
                       ![table] = MapInsert(@, r.next_id, asset)]]

\* A failed create: id 0, registry untouched.
NoAsset(r) == [id |-> 0, panic |-> FALSE, res |-> r]

gif_create(r, ptr, len) ==
    LET data == read_guest_bytes(ptr, len)
    IN  IF ~data.ok THEN NoAsset(r)
        ELSE IF GifDecode(data.data) = << >> THEN NoAsset(r)
        ELSE Allocate(r, "gifs", GifDecode(data.data)[1])

font_upload_ttf(r, ptr, len) ==
    LET data == read_guest_bytes(ptr, len)
    IN  IF ~data.ok THEN NoAsset(r)
        ELSE IF TtfDecode(data.data) = << >> THEN NoAsset(r)
        ELSE Allocate(r, "fonts", TtfDecode(data.data)[1])

font_use_spleen(r, size) ==
    IF SpleenCell(size) = << >> THEN NoAsset(r)
    ELSE Allocate(r, "fonts", [kind |-> "spleen", data |-> SpleenCell(size)])

\* A keyed register that drops the key's previous mapping when the create
\* fails.
KeyedInsert_evicting(made, keyed, key) ==
    IF made.id = 0
    THEN [ret |-> 0, panic |-> made.panic,
          res |-> [made.res EXCEPT ![keyed] = MapRemove(@, key)]]
    ELSE [ret |-> 1, panic |-> made.panic,
          res |-> [made.res EXCEPT ![keyed] = MapInsert(@, key, made.id)]]

\* The tail of graphics_gif_register, graphics_font_register_ttf and
\* graphics_font_register_spleen: id 0 is failure, any other id is mapped.
KeyedInsert(made, keyed, key) ==
    IF made.id = 0
    THEN [ret |-> 0, panic |-> made.panic, res |-> made.res]
    ELSE [ret |-> 1, panic |-> made.panic,
          res |-> [made.res EXCEPT ![keyed] = MapInsert(@, key, made.id)]]

\* A registry host call with outcome out = [ret, panic, res]; at most MaxIds
\* ids are handed out.
RegStep(op, args, out, before) ==
    /\ ~panicked
    /\ out.res.next_id <= MaxIds
    /\ IF out.panic
       THEN /\ panicked' = TRUE
            /\ res' = res
            /\ last' = RegCall(op, args, "panic", before)
       ELSE /\ panicked' = FALSE
            /\ res' = out.res
            /\ last' = RegCall(op, args, out.ret, before)
    /\ UNCHANGED << aux_vars, core_vars, overflow_checks, gfx_vars, audio_vars, memory, kv >>

\* The registry after graphics_png_register and its return value.
png_register(r, key, ptr, len) ==
    LET data == read_guest_bytes(ptr, len)
    IN  IF ~data.ok THEN [ret |-> 0, panic |-> FALSE, res |-> r]
        ELSE IF decode_png_to_rgba(data.data) = << >>
        THEN [ret |-> 0, panic |-> FALSE, res |-> r]
        ELSE [ret |-> 1, panic |-> FALSE,
              res |-> [r EXCEPT !.keyed_pngs =
                         MapInsert(@, key, decode_png_to_rgba(data.data)[1])]]

\* The registry after graphics_svg_register and its return value.
svg_register(r, key, ptr, len) ==
    LET data == read_guest_bytes(ptr, len)
        made == Allocate(r, "svgs", SvgDecode(data.data)[1])
    IN  IF ~data.ok THEN [ret |-> 0, panic |-> FALSE, res |-> r]
        ELSE IF SvgDecode(data.data) = << >>
        THEN [ret |-> 0, panic |-> FALSE, res |-> r]
        ELSE [ret |-> 1, panic |-> made.panic,
              res |-> [made.res EXCEPT !.keyed_svgs =
                         MapInsert(@, key, made.id)]]

\* The registry after `keyed.remove(key)` and the removal of the id it held
\* from table.
Unregister(r, keyed, table, key) ==
    IF key \in DOMAIN r[keyed]
    THEN [r EXCEPT ![keyed] = MapRemove(@, key),
                   ![table] = MapRemove(@, r[keyed][key])]
    ELSE r

Created(made) == [ret |-> made.id, panic |-> made.panic, res |-> made.res]
Removed(r) == [ret |-> "()", panic |-> FALSE, res |-> r]

graphics_png_register(key, ptr, len) ==
    RegStep("png_register", << key, ptr, len >>,
            png_register(res, key, ptr, len), Lookup(res.keyed_pngs, key))

graphics_png_unregister(key) ==
    RegStep("png_unregister", << key >>,
            Removed([res EXCEPT !.keyed_pngs = MapRemove(@, key)]),
            Lookup(res.keyed_pngs, key))

graphics_svg_register(key, ptr, len) ==
    RegStep("svg_register", << key, ptr, len >>,
               svg_register(res, key, ptr, len), Lookup(res.keyed_svgs, key))

graphics_svg_unregister(key) ==
    RegStep("svg_unregister", << key >>,
            Removed(Unregister(res, "keyed_svgs", "svgs", key)),
            Lookup(res.keyed_svgs, key))

graphics_gif_create(ptr, len) ==
    RegStep("gif_create", << ptr, len >>,
               Created(gif_create(res, ptr, len)), << >>)

graphics_gif_register(key, ptr, len) ==
    RegStep("gif_register", << key, ptr, len >>,
               KeyedInsert(gif_create(res, ptr, len), "keyed_gifs", key),
               Lookup(res.keyed_gifs, key))

graphics_gif_unregister(key) ==
    RegStep("gif_unregister", << key >>,
            Removed(Unregister(res, "keyed_gifs", "gifs", key)),
            Lookup(res.keyed_gifs, key))

graphics_font_upload_ttf(ptr, len) ==
    RegStep("font_upload_ttf", << ptr, len >>,
               Created(font_upload_ttf(res, ptr, len)), << >>)

graphics_font_register_ttf(key, ptr, len) ==
    RegStep("font_register_ttf", << key, ptr, len >>,
               KeyedInsert(font_upload_ttf(res, ptr, len), "keyed_fonts", key),
               Lookup(res.keyed_fonts, key))

graphics_font_use_spleen(size) ==
    RegStep("font_use_spleen", << size >>,
               Created(font_use_spleen(res, size)), << >>)

graphics_font_register_spleen(key, size) ==
    RegStep("font_register_spleen", << key, size >>,
               KeyedInsert(font_use_spleen(res, size), "keyed_fonts", key),
               Lookup(res.keyed_fonts, key))

graphics_font_unregister(key) ==
    RegStep("font_unregister", << key >>,
            Removed(Unregister(res, "keyed_fonts", "fonts", key)),
            Lookup(res.keyed_fonts, key))

(***************************************************************************)
(* Registry specification: a guest that registers and unregisters assets   *)
(* under two keys, with valid, undecodable and unreadable inputs.          *)
(***************************************************************************)
ResKeys == { 7, 9 }
SvgKeys == { 7 }
PngRegions == { << 0, 1 >>, << 0, 2 >>, << 2, 2 >>, << 15, 2 >> }
GifRegions == { << 2, 2 >>, << 0, 2 >> }
TtfRegions == { << 4, 2 >>, << 2, 2 >> }
SvgRegions == { << 6, 1 >>, << 6, 2 >> }
SpleenSizes == { 8, 12 }

NextRes ==
    \/ \E m \in BOOLEAN : instantiate(m)
    \/ \E k \in ResKeys, r \in PngRegions :
          graphics_png_register(k, r[1], r[2])
    \/ \E k \in ResKeys : graphics_png_unregister(k)
    \/ \E k \in SvgKeys, r \in SvgRegions :
          graphics_svg_register(k, r[1], r[2])
    \/ \E k \in SvgKeys : graphics_svg_unregister(k)
    \/ \E k \in ResKeys, r \in GifRegions :
          graphics_gif_register(k, r[1], r[2])
    \/ \E k \in ResKeys : graphics_gif_unregister(k)
    \/ \E k \in ResKeys, r \in TtfRegions :
          graphics_font_register_ttf(k, r[1], r[2])
    \/ \E k \in ResKeys, z \in SpleenSizes :
          graphics_font_register_spleen(k, z)
    \/ \E k \in ResKeys : graphics_font_unregister(k)
    \/ clear_on_unload

SpecRes == Init /\ [][NextRes]_vars

(***************************************************************************)
(* Claims about the resource registry.                                     *)
(***************************************************************************)
KeyedRegisterOps == { "png_register", "svg_register", "gif_register",
                      "font_register_ttf", "font_register_spleen" }

\* The asset a keyed register call is given: the decoder's result on the
\* bytes of its guest range, or the built-in font of its size.
GivenAsset(c) ==
    LET bytes == IF RangeInMemory(c.args[2], c.args[3])
                 THEN SubSeq(memory[1], c.args[2] + 1, c.args[2] + c.args[3])
                 ELSE << >>
    IN  CASE c.op = "png_register" -> decode_png_to_rgba(bytes)
          [] c.op = "svg_register" -> SvgDecode(bytes)
          [] c.op = "gif_register" -> GifDecode(bytes)
          [] c.op = "font_register_ttf" -> TtfDecode(bytes)
          [] c.op = "font_register_spleen" ->
                IF c.args[2] \in { 8, 16, 24, 32, 64 }
                THEN << [kind |-> "spleen", data |-> SpleenCell(c.args[2])] >>
                ELSE << >>

\* The resources key resolves to in registry r, in the category of op.
Resolve(r, op, key) ==
    LET via(keyed, table) ==
            IF key \in DOMAIN r[keyed] /\ r[keyed][key] \in DOMAIN r[table]
            THEN << r[table][r[keyed][key]] >> ELSE << >>
    IN  CASE op = "png_register" -> Lookup(r.keyed_pngs, key)
          [] op = "svg_register" -> via("keyed_svgs", "svgs")
          [] op = "gif_register" -> via("keyed_gifs", "gifs")
          [] op \in { "font_register_ttf", "font_register_spleen" } ->
                via("keyed_fonts", "fonts")

\* The key -> id (or key -> image) entry of the category of op.
KeyEntry(r, op, key) ==
    CASE op = "png_register" -> Lookup(r.keyed_pngs, key)
      [] op = "svg_register" -> Lookup(r.keyed_svgs, key)
      [] op = "gif_register" -> Lookup(r.keyed_gifs, key)
      [] op \in { "font_register_ttf", "font_register_spleen" } ->
            Lookup(r.keyed_fonts, key)

C8_DecodeFailureIsNoOp ==
    [][ (/\ last'.op \in { "png_register", "gif_register",
                           "font_register_ttf" }
         /\ RangeInMemory(last'.args[2], last'.args[3])
         /\ GivenAsset(last') = << >>) =>
          /\ last'.ret = 0
          /\ res' = res
          /\ KeyEntry(res', last'.op, last'.args[1]) = last'.before ]_vars

C8_Witness_FailedDecodeKeepsPrior ==
    /\ last.op = "gif_register"
    /\ RangeInMemory(last.args[2], last.args[3])
    /\ GivenAsset(last) = << >>
    /\ last.ret = 0
    /\ last.before # << >>
    /\ Len(Resolve(res, last.op, last.args[1])) = 1

\* C9: a keyed register call with a decodable animation, a decodable vector
\* font or a built-in bitmap font of size 8, 16, 24, 32 or 64 returns
\* non-zero and leaves the key resolving to the resource it created, in
\* every registry state, the freshly initialised one included.
C9_ValidRegisterSucceeds ==
    [][ (/\ last'.op \in { "gif_register", "font_register_ttf",
                           "font_register_spleen" }
         /\ GivenAsset(last') # << >>) =>
          /\ last'.ret # 0
          /\ Resolve(res', last'.op, last'.args[1]) = GivenAsset(last') ]_vars

(***************************************************************************)
(* loader/mod.rs, abi/mod.rs, lib.rs: the lifecycle controller.            *)
(*                                                                         *)
(* A rom is what the front-end hands to on_load_game: its bytes (data, an  *)
(* Option), whether the external engine accepts them (valid: the WAT       *)
(* parses and the module compiles), whether the module instantiates        *)
(* against the host import table (links), and the names it exports.        *)
(***************************************************************************)
WasmMagic == << 0, 97, 115, 109 >>
Utf8Bom == << 239, 187, 191 >>

is_wasm_magic(bytes) == Len(bytes) >= 4 /\ SubSeq(bytes, 1, 4) = WasmMagic

\* The while loop of skip_bom_and_leading_ws, from index i on.
RECURSIVE skip_leading_ws(_, _)
skip_leading_ws(bytes, i) ==
    IF i < Len(bytes) /\ bytes[i + 1] \in { 32, 9, 13, 10 }
    THEN skip_leading_ws(bytes, i + 1)
    ELSE i

skip_bom_and_leading_ws(bytes) ==
    skip_leading_ws(bytes,
                    IF Len(bytes) >= 3 /\ SubSeq(bytes, 1, 3) = Utf8Bom
                    THEN 3 ELSE 0)

\* detect_format: Some(Wasm), Some(Wat) or None.
detect_format(bytes) ==
    IF is_wasm_magic(bytes) THEN << "Wasm" >>
    ELSE LET i == skip_bom_and_leading_ws(bytes)
         IN  IF i < Len(bytes) /\ bytes[i + 1] = 40 THEN << "Wat" >>
             ELSE << >>

\* compile_module: detect, convert WAT, compile.
compile_module(rom) ==
    LET format == detect_format(rom.data[1])
    IN  IF format = << >> THEN [ok |-> FALSE, err |-> "UnrecognizedFormat"]
        ELSE IF ~rom.valid
        THEN [ok |-> FALSE,
              err |-> IF format = << "Wat" >> THEN "WatParseFailed"
                      ELSE "CompileFailed"]
        ELSE [ok |-> TRUE, err |-> ""]

\* A validation that takes `draw` in place of a missing `setup`.
required_exports_present_setup_or_draw(exports) ==
    IF "setup" \notin exports /\ "draw" \notin exports
    THEN "MissingExport::Setup" ELSE "Ok"

\* validate::required_exports_present: only `setup` is required.
required_exports_present(exports) ==
    IF "setup" \notin exports THEN "MissingExport::Setup" ELSE "Ok"

\* instance.get_func(name): Some(name) or None.
get_func(exports, name) == IF name \in exports THEN << name >> ELSE << >>

\* Option::or_else.
or_else(a, b) == IF a # << >> THEN a ELSE b

\* A resolution that looks at the WASI names before `draw`.
GuestEntrypoints_resolve_wasi_first(exports) ==
    IF get_func(exports, "setup") = << >>
    THEN [ok |-> FALSE, entry |-> << >>]
    ELSE [ok |-> TRUE,
          entry |-> << [setup |-> "setup",
                        update |-> get_func(exports, "update"),
                        draw |-> or_else(get_func(exports, "_start"),
                                   or_else(get_func(exports, "main"),
                                           get_func(exports, "draw")))] >>]

\* GuestEntrypoints::resolve: `setup` is required, `update` is optional,
\* `draw` falls back to `_start`, then to `main`.
GuestEntrypoints_resolve(exports) ==
    IF get_func(exports, "setup") = << >>
    THEN [ok |-> FALSE, entry |-> << >>]
    ELSE [ok |-> TRUE,
          entry |-> << [setup |-> "setup",
                        update |-> get_func(exports, "update"),
                        draw |-> or_else(get_func(exports, "draw"),
                                   or_else(get_func(exports, "_start"),
                                           get_func(exports, "main")))] >>]

\* Wasm96Core::instantiate on a compiled rom: the result, the fields it
\* leaves in the core and whether it registered the guest memory.
Wasm96Core_instantiate(rom) ==
    LET failed(module_kept, err) ==
            [ok |-> FALSE, err |-> err,
             module |-> IF module_kept THEN << rom >> ELSE << >>,
             instance |-> << >>, entrypoints |-> << >>,
             memory_set |-> FALSE]
    IN  IF ~rom.links THEN failed(FALSE, "InstantiationFailed")
        ELSE IF required_exports_present(rom.exports) # "Ok"
        THEN failed(TRUE, required_exports_present(rom.exports))
        ELSE IF ~GuestEntrypoints_resolve(rom.exports).ok
        THEN failed(TRUE, "MissingExport::Setup")
        ELSE IF "memory" \notin rom.exports
        THEN failed(TRUE, "MissingMemory")
        ELSE [ok |-> TRUE, err |-> "",
              module |-> << rom >>, instance |-> << rom.exports >>,
              entrypoints |-> GuestEntrypoints_resolve(rom.exports).entry,
              memory_set |-> TRUE]

\* call_guest_setup / call_guest_update / call_guest_draw: the guest
\* function that is called, if any; its result (return or trap) is dropped.
call_guest(entry, name) ==
    IF entry = << >> THEN << >>
    ELSE IF name = "setup" THEN << "setup" >>
    ELSE IF entry[1][name] = << >> THEN << >>
    ELSE << name >>

\* A load whose instantiate-failure path leaves in the core what
\* instantiate left there.
on_load_game_outcome_keeps_partial(rom, core) ==
    LET kept(err) == [result |-> "Failed", err |-> err,
                      module |-> core.module, instance |-> core.instance,
                      entrypoints |-> core.entrypoints,
                      cleared |-> FALSE, memory_set |-> FALSE]
        inst == Wasm96Core_instantiate(rom)
    IN  IF rom.data = << >> THEN kept("NoData")
        ELSE IF ~compile_module(rom).ok THEN kept(compile_module(rom).err)
        ELSE IF ~inst.ok
        THEN [result |-> "Failed", err |-> inst.err,
              module |-> inst.module, instance |-> inst.instance,
              entrypoints |-> inst.entrypoints,
              cleared |-> FALSE, memory_set |-> FALSE]
        ELSE [result |-> "Success", err |-> "",
              module |-> inst.module, instance |-> inst.instance,
              entrypoints |-> inst.entrypoints,
              cleared |-> FALSE, memory_set |-> TRUE]

\* on_load_game up to the setup call, started with the fields core: the
\* result reported to the front-end, the fields the core is left with,
\* whether clear_on_unload ran and whether the guest memory was registered.
on_load_game_outcome(rom, core) ==
    LET kept(err) == [result |-> "Failed", err |-> err,
                      module |-> core.module, instance |-> core.instance,
                      entrypoints |-> core.entrypoints,
                      cleared |-> FALSE, memory_set |-> FALSE]
        inst == Wasm96Core_instantiate(rom)
    IN  IF rom.data = << >> THEN kept("NoData")
        ELSE IF ~compile_module(rom).ok THEN kept(compile_module(rom).err)
        ELSE IF ~inst.ok
        THEN [result |-> "Failed", err |-> inst.err,
              module |-> << >>, instance |-> << >>, entrypoints |-> << >>,
              cleared |-> TRUE, memory_set |-> FALSE]
        ELSE [result |-> "Success", err |-> "",
              module |-> inst.module, instance |-> inst.instance,
              entrypoints |-> inst.entrypoints,
              cleared |-> FALSE, memory_set |-> TRUE]

\* Core::on_load_game.  The front-end loads a game only while none is
\* loaded.  setup_result is what the guest's setup does (returns or traps);
\* the controller drops it.
on_load_game(rom, setup_result) ==
    /\ ~panicked
    /\ game_data = << >>
    /\ LET out == on_load_game_outcome(rom,
                     [module |-> module, instance |-> instance,
                      entrypoints |-> entrypoints])
       IN  /\ module' = out.module
           /\ instance' = out.instance
           /\ entrypoints' = out.entrypoints
           /\ game_data' = IF out.result = "Success" THEN << rom >>
                           ELSE << >>
           /\ IF out.cleared THEN clear_on_unload_body
              ELSE /\ memory' = IF out.memory_set THEN << GuestImage >>
                                ELSE memory
                   /\ UNCHANGED << gfx_vars, handle, sample_rate, host_queue,
                                   channels >>
           /\ steps' = IF out.result = "Success"
                       THEN call_guest(out.entrypoints, "setup")
                       ELSE << >>
           /\ last' = Call("on_load_game", << rom, setup_result >>,
                           [result |-> out.result, err |-> out.err])
    /\ UNCHANGED << aux_vars, overflow_checks, panicked, uploaded, kv, res >>

\* Core::on_unload_game; the front-end unloads only a loaded game.
on_unload_game ==
    /\ ~panicked
    /\ game_data # << >>
    /\ module' = << >>
    /\ instance' = << >>
    /\ entrypoints' = << >>
    /\ clear_on_unload_body
    /\ game_data' = << >>
    /\ steps' = << >>
    /\ last' = Call("on_unload_game", << >>, "ok")
    /\ UNCHANGED << aux_vars, overflow_checks, panicked, uploaded, kv, res >>

\* A tick that gives up as soon as a guest call traps.
on_run_steps_abandon_on_trap(entry, update_result, draw_result) ==
    LET update == call_guest(entry, "update")
        draw == call_guest(entry, "draw")
    IN  IF update # << >> /\ update_result = "trap" THEN update
        ELSE IF draw # << >> /\ draw_result = "trap" THEN update \o draw
        ELSE update \o draw \o << "video_present_host", "audio_drain_host" >>

\* The calls of Core::on_run after the handle is stored, in order.  The
\* results of the guest calls are dropped.
on_run_steps(entry, update_result, draw_result) ==
    call_guest(entry, "update") \o call_guest(entry, "draw")
        \o << "video_present_host", "audio_drain_host" >>

\* Core::on_run: stores the handle, runs the calls of on_run_steps;
\* audio_drain_host(0) then finds the handle set.
on_run(update_result, draw_result) ==
    /\ ~panicked
    /\ handle' = TRUE
    /\ steps' = on_run_steps(entrypoints, update_result, draw_result)
    /\ IF \E i \in 1..Len(steps') : steps'[i] = "audio_drain_host"
       THEN LET out == drain_mix(host_queue, channels, sample_rate, 0)
            IN  /\ host_queue' = out.host_queue
                /\ channels' = out.channels
                /\ uploaded' = out.mixed
                /\ last' = Call("on_run", << update_result, draw_result >>,
                                out.ret)
       ELSE /\ UNCHANGED << host_queue, channels, uploaded >>
            /\ last' = Call("on_run", << update_result, draw_result >>, 0)
    /\ UNCHANGED << aux_vars, overflow_checks, panicked, gfx_vars, memory, sample_rate,
                    kv, res, game_data, module, instance, entrypoints >>

\* Core::on_reset: re-runs the guest's setup.
on_reset(setup_result) ==
    /\ ~panicked
    /\ steps' = call_guest(entrypoints, "setup")
    /\ last' = Call("on_reset", << setup_result >>, "ok")
    /\ UNCHANGED << aux_vars, overflow_checks, panicked, gfx_vars, audio_vars, memory,
                    kv, res, game_data, module, instance, entrypoints >>

(***************************************************************************)
(* Lifecycle specification: a front-end that loads roms, runs ticks,       *)
(* resets and unloads, and a loaded guest that resizes and clears the      *)
(* screen, queues audio and registers an image in between.                 *)
(***************************************************************************)
Rom(data, valid, links, exports) ==
    [data |-> data, valid |-> valid, links |-> links, exports |-> exports]

WasmBytes == << WasmMagic >>
WatBytes == << << 32, 40 >> >>
WatBomBytes == << Utf8Bom \o << 10, 40 >> >>

CoreExportSets ==
    { { "draw", "memory" },
      { "_start", "main", "memory" },
      { "setup", "update", "draw", "_start", "main" },
      { "setup", "update", "draw", "_start", "main", "memory" },
      { "setup", "_start", "main", "memory" },
      { "setup", "main", "memory" },
      { "setup", "update", "memory" },
      { "setup", "memory" } }

CoreRoms ==
    { Rom(<< >>, FALSE, FALSE, {}),
      Rom(<< << >> >>, FALSE, FALSE, {}),
      Rom(<< << 110, 111 >> >>, FALSE, FALSE, {}),
      Rom(WasmBytes, FALSE, FALSE, {}),
      Rom(WatBytes, FALSE, FALSE, {}),
      Rom(WasmBytes, TRUE, FALSE, { "setup", "memory" }),
      Rom(WatBomBytes, TRUE, TRUE, { "setup", "draw", "memory" }) }
      \cup { Rom(WasmBytes, TRUE, TRUE, e) : e \in CoreExportSets }

GuestResults == { "ok", "trap" }

\* Host calls come from the guest: there is one only while an instance
\* exists.
NextCore ==
    \/ \E rom \in CoreRoms, r \in GuestResults : on_load_game(rom, r)
    \/ \E u \in GuestResults, d \in GuestResults : on_run(u, d)
    \/ \E r \in GuestResults : on_reset(r)
    \/ on_unload_game
    \/ instance # << >> /\ graphics_set_size(2, 1)
    \/ instance # << >> /\ graphics_background(255, 0, 0)
    \/ instance # << >> /\ audio_init(120)
    \/ instance # << >> /\ audio_push_samples(12, 2)
    \/ instance # << >> /\ graphics_png_register(7, 0, 2)

SpecCore == Init /\ [][NextCore]_vars

(***************************************************************************)
(* Claims about the lifecycle controller.                                  *)
(***************************************************************************)
\* The number of times the call x occurs in the sequence of calls seq.
Count(seq, x) == Cardinality({ i \in 1..Len(seq) : seq[i] = x })

\* The place of a call in the order of a tick.
TickRank(x) ==
    IF x = "update" THEN 1
    ELSE IF x = "draw" THEN 2
    ELSE IF x = "video_present_host" THEN 3
    ELSE IF x = "audio_drain_host" THEN 4
    ELSE 0

\* The rom of the last on_load_game call got as far as export validation.
ReachedValidation(rom) ==
    rom.data # << >> /\ compile_module(rom).ok /\ rom.links

\* C11: when on_load_game reports failure, whatever the stage that failed
\* (no data, unrecognised or uncompilable bytes, instantiation, a missing
\* required export, a missing memory export), the controller is left
\* unloaded: no module, no instance, no entrypoints, no game data, no guest
\* call made, and no guest memory registered in the global state.
C11_FailedLoadRetainsNothing ==
    (last.op = "on_load_game" /\ last.ret.result = "Failed") =>
        /\ module = << >>
        /\ instance = << >>
        /\ entrypoints = << >>
        /\ game_data = << >>
        /\ steps = << >>
        /\ memory = << >>

\* A load that failed after instantiation, on a rom that exports its entry
\* points but no memory, following an earlier successful load and unload.
C11_Witness_FailsAtMemoryExport ==
    /\ last.op = "on_load_game"
    /\ last.ret = [result |-> "Failed", err |-> "MissingMemory"]
    /\ "setup" \in last.args[1].exports
    /\ module = << >>
    /\ memory = << >>

\* C12: a tick calls the guest's update if it is resolved, then the guest's
\* draw if it is resolved, then presents the framebuffer, then drains
\* audio; present and drain happen exactly once whether or not update and
\* draw exist or trap, the drain uploads the per-tick minimum, and without
\* a loaded guest no guest function is called.
C12_TickOrder ==
    last.op = "on_run" =>
        /\ Count(steps, "video_present_host") = 1
        /\ Count(steps, "audio_drain_host") = 1
        /\ Count(steps, "update") =
              IF entrypoints # << >> /\ entrypoints[1].update # << >>
              THEN 1 ELSE 0
        /\ Count(steps, "draw") =
              IF entrypoints # << >> /\ entrypoints[1].draw # << >>
              THEN 1 ELSE 0
        /\ \A i \in 1..Len(steps) : TickRank(steps[i]) > 0
        /\ \A i \in 1..Len(steps), j \in 1..Len(steps) :
              i < j => TickRank(steps[i]) < TickRank(steps[j])
        /\ (instance = << >>) =>
              steps = << "video_present_host", "audio_drain_host" >>
        /\ handle
        /\ last.ret = sample_rate \div FramesPerSecond
        /\ Len(uploaded) = 2 * (sample_rate \div FramesPerSecond)

\* A tick of a guest with both entry points in which update and draw trap,
\* at a sample rate that makes the drain upload frames.
C12_Witness_BothTrapStillPresents ==
    /\ last.op = "on_run"
    /\ last.args = << "trap", "trap" >>
    /\ steps = << "update", "draw", "video_present_host",
                  "audio_drain_host" >>
    /\ Len(uploaded) > 0

\* C13: after on_unload_game the host-side state is back to its defaults:
\* video state, audio state, the guest-memory pointer and the resource
\* registry, so no key registered before the unload resolves after it; and
\* a load starts with an empty registry.
C13_UnloadRestoresDefaults ==
    /\ last.op = "on_unload_game" =>
          /\ width = 0 /\ height = 0 /\ framebuffer = << >>
          /\ draw_color = 0
          /\ sample_rate = 0 /\ host_queue = << >> /\ channels = << >>
          /\ memory = << >>
          /\ res = ResourcesDefault
          /\ \A k \in { 7, 9 } : Lookup(res.keyed_pngs, k) = << >>
    /\ last.op = "on_load_game" => res = ResourcesDefault

\* C14: a guest without a `setup` export fails validation with the
\* missing-export error even when it exports draw, _start or main, and
\* on_load_game reports the failure: no entrypoints are kept for a later
\* tick and a loaded guest always has `setup`.
C14_MissingSetupFailsLoad ==
    /\ (last.op = "on_load_game" /\ "setup" \notin last.args[1].exports) =>
          /\ required_exports_present(last.args[1].exports)
                = "MissingExport::Setup"
          /\ last.ret.result = "Failed"
          /\ ReachedValidation(last.args[1]) =>
                last.ret.err = "MissingExport::Setup"
          /\ entrypoints = << >>
          /\ instance = << >>
    /\ instance # << >> => "setup" \in instance[1]

\* A rom that compiles, links and exports _start, main and memory but no
\* setup was refused at load.
C14_Witness_WasiGuestWithoutSetup ==
    /\ last.op = "on_load_game"
    /\ last.args[1].exports = { "_start", "main", "memory" }
    /\ ReachedValidation(last.args[1])
    /\ last.ret = [result |-> "Failed", err |-> "MissingExport::Setup"]

\* The draw entry point the export precedence prescribes.
PreferredDraw(exports) ==
    IF "draw" \in exports THEN << "draw" >>
    ELSE IF "_start" \in exports THEN << "_start" >>
    ELSE IF "main" \in exports THEN << "main" >>
    ELSE << >>

\* C15: after a successful load the draw entry point is the guest's `draw`
\* if exported, else `_start`, else `main`, else none; update is resolved
\* exactly when `update` is exported; and a rom that loads, links and
\* exports setup and memory is never refused for lacking update or draw.
C15_EntrypointPrecedence ==
    last.op = "on_load_game" =>
        /\ last.ret.result = "Success" =>
              /\ entrypoints # << >>
              /\ entrypoints[1].draw = PreferredDraw(last.args[1].exports)
              /\ (entrypoints[1].update # << >>)
                    <=> ("update" \in last.args[1].exports)
              /\ entrypoints[1].update \in { << >>, << "update" >> }
        /\ ( /\ ReachedValidation(last.args[1])
             /\ { "setup", "memory" } \subseteq last.args[1].exports )
              => last.ret.result = "Success"

\* A guest exporting setup, _start and main but no draw and no update was
\* loaded with _start as its draw entry point.
C15_Witness_StartStandsInForDraw ==
    /\ last.op = "on_load_game"
    /\ last.ret.result = "Success"
    /\ last.args[1].exports = { "setup", "_start", "main", "memory" }
    /\ entrypoints[1].draw = << "_start" >>
    /\ entrypoints[1].update = << >>

(***************************************************************************)
(* Resize-and-fill specification: resizes (to nothing, to small screens    *)
(* and to a screen whose pixel count overflows), color changes, clears,    *)
(* unloads, and triangle fills over vertices that include coincident and   *)
(* collinear triples on and off the screen and at the ends of the range.   *)
(***************************************************************************)
TriSizes == { << 0, 2 >>, << 2, 2 >>, << 3, 2 >>, << Half, Half >> }
TriPts == { << 0, 0 >>, << 2, 0 >>, << I32Min, I32Min >>,
            << I32Max, I32Max >> }

NextTri ==
    \/ \E s \in TriSizes : graphics_set_size(s[1], s[2])
    \/ \E c \in GfxColors : graphics_set_color(c[1], c[2], c[3], 255)
    \/ \E c \in GfxColors : graphics_background(c[1], c[2], c[3])
    \/ \E a \in TriPts, b \in TriPts, c \in TriPts : graphics_triangle(a, b, c)
    \/ clear_on_unload

SpecTri == Init /\ [][NextTri]_vars

(***************************************************************************)
(* Further claims about the rasterizer.                                    *)
(***************************************************************************)
AllBlack(fb) == \A i \in 1..Len(fb) : fb[i] = 0

C17_DegenerateTriangleDrawsNothing ==
    [][ (last'.op = "triangle" /\ TriArea2(last'.args) = 0) =>
            framebuffer' = framebuffer ]_vars

\* A fill of three distinct collinear vertices whose line crosses a screen
\* pixel that does not have the draw color.
C17_Witness_CollinearOnScreen ==
    /\ last.op = "triangle"
    /\ last.ret = "ok"
    /\ TriArea2(last.args) = 0
    /\ << last.args[1], last.args[2] >> # << last.args[3], last.args[4] >>
    /\ << last.args[3], last.args[4] >> # << last.args[5], last.args[6] >>
    /\ << last.args[1], last.args[2] >> # << last.args[5], last.args[6] >>
    /\ last.args[1] = 0 /\ last.args[2] = 0
    /\ Len(framebuffer) > 0
    /\ framebuffer[1] # draw_color


(***************************************************************************)
(* Further claims about the audio mixer.                                   *)
(***************************************************************************)
\* A channel all of whose frames have been mixed: active, with frames, and
\* positioned at or past its last frame.
PlayedThrough(ch) ==
    /\ ch.active
    /\ Len(ch.pcm_stereo) > 0
    /\ ch.position_frames >= Len(ch.pcm_stereo) \div 2

StillPlaying(ch) == ~PlayedThrough(ch)

\* C18: a channel started by play_wav is one-shot.  Every channel of this
\* specification is started by audio_play_wav; on a drain that reaches the
\* mixer, a channel whose frames have all been mixed once is deactivated,
\* and the uploaded buffer is the one the drain produces from the queue and
\* the other channels alone.
C18_PlayWavIsOneShot ==
    [][ (last'.op = "audio_drain_host" /\ handle) =>
           /\ \A i \in 1..Len(channels) :
                 PlayedThrough(channels[i]) => ~channels'[i].active
           /\ uploaded' = drain_mix(host_queue,
                                    SelectSeq(channels, StillPlaying),
                                    sample_rate, last'.args[1]).mixed
      ]_vars


(***************************************************************************)
(* Queue specification: a guest that pushes runs of one to four samples    *)
(* and a front-end whose drains emit fewer, as many and more frames than   *)
(* the queue holds.                                                        *)
(***************************************************************************)
QueueRates == { 0, 60 }
QueueSampleRegions == { << 8, 4 >>, << 12, 1 >>, << 12, 2 >> }
QueueDrainFrames == { 0, 1, 3 }

NextQueue ==
    \/ \E m \in BOOLEAN : instantiate(m)
    \/ set_runtime_handle
    \/ \E r \in QueueRates : audio_init(r)
    \/ \E r \in QueueSampleRegions : audio_push_samples(r[1], r[2])
    \/ \E n \in QueueDrainFrames : audio_drain_host(n)
    \/ clear_on_unload

SpecQueue == Init /\ [][NextQueue]_vars

Silence(n) == [i \in 1..n |-> 0]

\* C19: the host queue is first-in first-out.  A push leaves the queued
\* samples where they are and adds its own behind them; a drain that emits
\* N frames takes the first 2 * min(floor(len / 2), N) samples, in order,
\* into the head of the uploaded buffer (followed by silence when no
\* channel plays) and leaves the remaining samples in order; nothing else
\* but an unload changes the queue.
C19_QueueIsFifo ==
    [][ /\ (last'.op = "audio_drain_host" /\ handle) =>
              LET N == Len(uploaded') \div 2
                  k == 2 * Min2(Len(host_queue) \div 2, N)
              IN  /\ Len(host_queue') = Len(host_queue) - k
                  /\ host_queue = SubSeq(host_queue, 1, k) \o host_queue'
                  /\ SubSeq(uploaded', 1, k) =
                        MixChannels(channels, SubSeq(host_queue, 1, k),
                                    N, Len(channels)).mixed
                  /\ channels = << >> =>
                        uploaded' = SubSeq(host_queue, 1, k)
                                      \o Silence(2 * N - k)
        /\ (last'.op = "audio_drain_host" /\ ~handle) =>
              host_queue' = host_queue
        /\ last'.op = "audio_push_samples" =>
              /\ SubSeq(host_queue', 1, Len(host_queue)) = host_queue
              /\ Len(host_queue') \in
                    { Len(host_queue), Len(host_queue) + last'.args[2] }
        /\ last'.op \notin { "audio_drain_host", "audio_push_samples",
                             "unload" } =>
              host_queue' = host_queue
      ]_vars

\* A one-frame drain of a queue of two frames: the first frame was uploaded
\* and the second is still queued.
C19_Witness_DrainTakesHeadFrame ==
    /\ last.op = "audio_drain_host"
    /\ last.ret = 1
    /\ Len(uploaded) = 2
    /\ Len(host_queue) = 2
    /\ uploaded \o host_queue = SamplesFromBytes(SubSeq(GuestImage, 9, 16))


(***************************************************************************)
(* Mixer specification: the state the mixer's unit test builds, one        *)
(* four-frame channel of constant amplitude, played once or looping, and a *)
(* front-end whose drains emit zero, one and three frames.                 *)
(***************************************************************************)
\* The channel of the test: 4 stereo frames of 5000, full volume, centred.
TestChannel(loop_enabled) ==
    [active |-> TRUE, volume_q8_8 |-> 256, pan_i16 |-> 0,
     loop_enabled |-> loop_enabled,
     pcm_stereo |-> << 5000, 5000, 5000, 5000, 5000, 5000, 5000, 5000 >>,
     position_frames |-> 0]

InitMix ==
    /\ overflow_checks \in BOOLEAN
    /\ panicked = FALSE
    /\ width = 0
    /\ height = 0
    /\ framebuffer = << >>
    /\ draw_color = 0
    /\ draws = 0
    /\ handle = FALSE
    /\ memory = << >>
    /\ sample_rate = 0
    /\ host_queue = << >>
    /\ \E loop_enabled \in BOOLEAN : channels = << TestChannel(loop_enabled) >>
    /\ uploaded = << >>
    /\ kv = EmptyMap
    /\ res = ResourcesDefault
    /\ game_data = << >>
    /\ module = << >>
    /\ instance = << >>
    /\ entrypoints = << >>
    /\ steps = << >>
    /\ AuxInit
    /\ last = Call("init", << >>, "ok")

MixRates == { 0, 60, 120 }
MixDrainFrames == { 0, 1, 3 }

NextMix ==
    \/ set_runtime_handle
    \/ \E r \in MixRates : audio_init(r)
    \/ \E n \in MixDrainFrames : audio_drain_host(n)

SpecMix == InitMix /\ [][NextMix]_vars

\* C20: a mix pass that emits N frames leaves every channel that was active
\* at position p0 + min(frame_count - p0, N), where p0 is the position
\* before the pass, or 0 for a looping channel that was at its end; no
\* position ever exceeds the channel's frame count; and the 4-frame channel
\* at position 0 mixed for one frame ends at position 1 with both output
\* samples non-zero.
C20_MixAdvancesPosition ==
    [][ /\ (last'.op = "audio_drain_host" /\ handle) =>
              LET N == Len(uploaded') \div 2
              IN  \A i \in 1..Len(channels) :
                     LET ch == channels[i]
                         frame_count == Len(ch.pcm_stereo) \div 2
                         p0 == IF ch.loop_enabled
                                  /\ ch.position_frames >= frame_count
                               THEN 0 ELSE ch.position_frames
                     IN  /\ ch.active =>
                            channels'[i].position_frames =
                               p0 + Min2(frame_count - p0, N)
                         /\ (ch.active /\ frame_count = 4
                               /\ ch.position_frames = 0 /\ N = 1) =>
                               /\ channels'[i].position_frames = 1
                               /\ uploaded'[1] # 0
                               /\ uploaded'[2] # 0
        /\ \A i \in 1..Len(channels') :
              channels'[i].position_frames
                 <= Len(channels'[i].pcm_stereo) \div 2
      ]_vars

\* The test's case: the play-once 4-frame channel after a drain of exactly
\* one frame.
C20_Witness_OneFrameOfFour ==
    /\ last.op = "audio_drain_host"
    /\ last.ret = 1
    /\ Len(channels) = 1
    /\ ~channels[1].loop_enabled
    /\ Len(channels[1].pcm_stereo) = 8
    /\ channels[1].position_frames = 1
    /\ uploaded = << 5000, 5000 >>


(***************************************************************************)
(* Channel-order specification: up to two one-frame channels as            *)
(* audio_play_wav creates them, over samples at and near the i16 limits,   *)
(* with one frame or nothing queued, and a front-end that drains.          *)
(***************************************************************************)
OrderSamples == { I16Min, 1, I16Max }

\* The channel audio_play_wav starts for a one-sample mono WAV.
WavChannel(sample) ==
    [active |-> TRUE, volume_q8_8 |-> 256, pan_i16 |-> 0,
     loop_enabled |-> TRUE, pcm_stereo |-> << sample, sample >>,
     position_frames |-> 0]

OrderChannelLists ==
    { << >> }
      \cup { << WavChannel(a) >> : a \in OrderSamples }
      \cup { << WavChannel(a), WavChannel(b) >> :
                a \in OrderSamples, b \in OrderSamples }

OrderQueues == { << >> } \cup { << a, a >> : a \in OrderSamples }

InitOrder ==
    /\ overflow_checks \in BOOLEAN
    /\ panicked = FALSE
    /\ width = 0
    /\ height = 0
    /\ framebuffer = << >>
    /\ draw_color = 0
    /\ draws = 0
    /\ handle = FALSE
    /\ memory = << >>
    /\ sample_rate = 0
    /\ host_queue \in OrderQueues
    /\ channels \in OrderChannelLists
    /\ uploaded = << >>
    /\ kv = EmptyMap
    /\ res = ResourcesDefault
    /\ game_data = << >>
    /\ module = << >>
    /\ instance = << >>
    /\ entrypoints = << >>
    /\ steps = << >>
    /\ AuxInit
    /\ last = Call("init", << >>, "ok")

OrderDrainFrames == { 0, 1 }

NextOrder ==
    \/ set_runtime_handle
    \/ \E n \in OrderDrainFrames : audio_drain_host(n)

SpecOrder == InitOrder /\ [][NextOrder]_vars

\* The orders in which n channels can be stored.
ChannelOrders(n) ==
    { f \in [1..n -> 1..n] : \A i, j \in 1..n : f[i] = f[j] => i = j }

\* C21: the buffer a drain uploads does not depend on the order of the
\* channels: the drain run on any permutation of the channel list, with the
\* same queue, rate and frame count, produces the same samples.
C21_ChannelOrderIrrelevant ==
    [][ (last'.op = "audio_drain_host" /\ handle) =>
           \A f \in ChannelOrders(Len(channels)) :
              drain_mix(host_queue,
                        [i \in 1..Len(channels) |-> channels[f[i]]],
                        sample_rate, last'.args[1]).mixed = uploaded'
      ]_vars


(***************************************************************************)
(* Lock specification: the order in which each host function locks and     *)
(* unlocks GLOBAL_STATE and RESOURCES, run by two threads at once.          *)
(***************************************************************************)
Lock(m) == << "lock", m >>
Unlock(m) == << "unlock", m >>

\* let s = global().lock().unwrap(); ... dropped before anything else.
GlobalSection == << Lock("global"), Unlock("global") >>
\* let res = RESOURCES.lock().unwrap(); ... dropped before anything else.
ResourcesSection == << Lock("resources"), Unlock("resources") >>
\* A draw made while `res` is alive: RESOURCES, then GLOBAL_STATE inside it.
DrawUnderResources ==
    << Lock("resources"), Lock("global"), Unlock("global"),
       Unlock("resources") >>

\* A text draw that takes GLOBAL_STATE for the whole string and RESOURCES
\* inside it.
LockChain_global_outside(fn) ==
    CASE fn = "graphics_point" -> GlobalSection
      [] fn = "graphics_image_from_host" -> GlobalSection
      [] fn = "storage_save" -> GlobalSection \o GlobalSection
      [] fn = "audio_drain_host" -> GlobalSection \o GlobalSection
      [] fn = "graphics_png_register" -> ResourcesSection
      [] fn = "graphics_png_draw_key" -> ResourcesSection \o GlobalSection
      [] fn = "graphics_svg_draw" -> DrawUnderResources
      [] fn = "graphics_svg_draw_key" ->
            ResourcesSection \o DrawUnderResources
      [] fn = "graphics_svg_unregister" ->
            ResourcesSection \o ResourcesSection
      [] fn = "graphics_gif_draw_scaled" -> DrawUnderResources
      [] fn = "graphics_gif_register" ->
            ResourcesSection \o ResourcesSection
      [] fn = "graphics_font_unregister" ->
            ResourcesSection \o ResourcesSection
      [] fn = "graphics_text_ttf" ->
            << Lock("global"), Lock("resources"), Unlock("resources"),
               Unlock("global") >>
      [] fn = "graphics_text_spleen" ->
            GlobalSection
              \o << Lock("resources"), Lock("global"), Unlock("global"),
                    Lock("global"), Unlock("global"), Unlock("resources") >>
      [] fn = "graphics_text_key" ->
            ResourcesSection \o GlobalSection \o DrawUnderResources
      [] fn = "graphics_text_measure" -> GlobalSection \o ResourcesSection

\* The lock and unlock steps of each host function, in program order.
\* graphics_text reads the memory pointer under GLOBAL_STATE, releases it,
\* then holds RESOURCES while it draws: a TrueType string under one
\* GLOBAL_STATE section, a bitmap string through graphics_point per pixel.
LockChain(fn) ==
    CASE fn = "graphics_point" -> GlobalSection
      [] fn = "graphics_image_from_host" -> GlobalSection
      [] fn = "storage_save" -> GlobalSection \o GlobalSection
      [] fn = "audio_drain_host" -> GlobalSection \o GlobalSection
      [] fn = "graphics_png_register" -> ResourcesSection
      [] fn = "graphics_png_draw_key" -> ResourcesSection \o GlobalSection
      [] fn = "graphics_svg_draw" -> DrawUnderResources
      [] fn = "graphics_svg_draw_key" ->
            ResourcesSection \o DrawUnderResources
      [] fn = "graphics_svg_unregister" ->
            ResourcesSection \o ResourcesSection
      [] fn = "graphics_gif_draw_scaled" -> DrawUnderResources
      [] fn = "graphics_gif_register" ->
            ResourcesSection \o ResourcesSection
      [] fn = "graphics_font_unregister" ->
            ResourcesSection \o ResourcesSection
      [] fn = "graphics_text_ttf" -> GlobalSection \o DrawUnderResources
      [] fn = "graphics_text_spleen" ->
            GlobalSection
              \o << Lock("resources"), Lock("global"), Unlock("global"),
                    Lock("global"), Unlock("global"), Unlock("resources") >>
      [] fn = "graphics_text_key" ->
            ResourcesSection \o GlobalSection \o DrawUnderResources
      [] fn = "graphics_text_measure" -> GlobalSection \o ResourcesSection

HostFunctions ==
    { "graphics_point", "graphics_image_from_host", "storage_save",
      "audio_drain_host", "graphics_png_register", "graphics_png_draw_key",
      "graphics_svg_draw", "graphics_svg_draw_key",
      "graphics_svg_unregister", "graphics_gif_draw_scaled",
      "graphics_gif_register", "graphics_font_unregister",
      "graphics_text_ttf", "graphics_text_spleen", "graphics_text_key",
      "graphics_text_measure" }

\* Thread t enters host function fn.
host_call(t, fn) ==
    /\ call_chain[t] = << >>
    /\ call_chain' = [call_chain EXCEPT ![t] = LockChain(fn)]
    /\ last' = Call(fn, << t >>, "entered")
    /\ UNCHANGED << lock_owner, ring, core_vars, overflow_checks, panicked,
                    gfx_vars, audio_vars, memory, kv, res >>

\* Mutex::lock: blocks until the mutex is free; std's Mutex is not
\* re-entrant, so a thread that already holds it blocks as well.
mutex_lock(t) ==
    /\ call_chain[t] # << >>
    /\ Head(call_chain[t])[1] = "lock"
    /\ lock_owner[Head(call_chain[t])[2]] = 0
    /\ lock_owner' = [lock_owner EXCEPT ![Head(call_chain[t])[2]] = t]
    /\ call_chain' = [call_chain EXCEPT ![t] = Tail(call_chain[t])]
    /\ last' = Call("lock", << t, Head(call_chain[t])[2] >>, "acquired")
    /\ UNCHANGED << ring, core_vars, overflow_checks, panicked, gfx_vars,
                    audio_vars, memory, kv, res >>

\* The guard is dropped.
mutex_unlock(t) ==
    /\ call_chain[t] # << >>
    /\ Head(call_chain[t])[1] = "unlock"
    /\ lock_owner' = [lock_owner EXCEPT ![Head(call_chain[t])[2]] = 0]
    /\ call_chain' = [call_chain EXCEPT ![t] = Tail(call_chain[t])]
    /\ last' = Call("unlock", << t, Head(call_chain[t])[2] >>, "released")
    /\ UNCHANGED << ring, core_vars, overflow_checks, panicked, gfx_vars,
                    audio_vars, memory, kv, res >>

NextLock ==
    \/ \E t \in Threads, fn \in HostFunctions : host_call(t, fn)
    \/ \E t \in Threads : mutex_lock(t)
    \/ \E t \in Threads : mutex_unlock(t)

SpecLock == Init /\ [][NextLock]_vars

Holds(t, m) == lock_owner[m] = t
Wants(t, m) == call_chain[t] # << >> /\ Head(call_chain[t]) = Lock(m)
CanStep(t) ==
    /\ call_chain[t] # << >>
    /\ Head(call_chain[t])[1] = "lock" =>
          lock_owner[Head(call_chain[t])[2]] = 0

\* C22: no host function locks a mutex its own call chain holds; a thread
\* that takes a second mutex always holds RESOURCES and takes GLOBAL_STATE,
\* never the reverse; and whenever some host call is unfinished, some
\* thread can take its next step: no interleaving deadlocks.
C22_NoDeadlock ==
    /\ \A t \in Threads, m \in Mutexes : ~(Holds(t, m) /\ Wants(t, m))
    /\ \A t \in Threads : ~(Holds(t, "global") /\ Wants(t, "resources"))
    /\ (\E t \in Threads : call_chain[t] # << >>) =>
          \E t \in Threads : CanStep(t)

\* One thread holds both mutexes while the other waits for the first.
C22_Witness_BothHeldOtherWaits ==
    /\ Holds(1, "resources")
    /\ Holds(1, "global")
    /\ Wants(2, "resources")


(***************************************************************************)
(* Animation ingest: the composition loop of graphics_gif_create over a    *)
(* one-column, two-row canvas.  Frame coordinates are u16, scaled with the *)
(* machine word; a pixel is 0 (transparent) or an opaque colour.           *)
(***************************************************************************)
U16Mod == 2 ^ (WordBits \div 2)
U16Max == U16Mod - 1

GifWidth == 1
GifHeight == 2

PixelRow(i, w) == (i - 1) \div w
PixelCol(i, w) == (i - 1) % w

\* The Background arm: `for y in ly..(ly + lh)`, `for x in lx..(lx + lw)`
\* over u16 values, each loop left at the first coordinate outside the
\* canvas.  rect is (left, top, width, height).
dispose_background(canvas, rect, w, h, checks) ==
    LET y_sum == rect[2] + rect[4]
        x_sum == rect[1] + rect[3]
        rows == { y \in 0..(h - 1) : y >= rect[2] /\ y < y_sum % U16Mod }
        cols == { x \in 0..(w - 1) : x >= rect[1] /\ x < x_sum % U16Mod }
        overflow == y_sum >= U16Mod \/ (rows # { } /\ x_sum >= U16Mod)
    IN  IF checks /\ overflow
        THEN [panic |-> TRUE, canvas |-> canvas]
        ELSE [panic |-> FALSE,
              canvas |-> [i \in 1..Len(canvas) |->
                            IF PixelRow(i, w) \in rows
                               /\ PixelCol(i, w) \in cols
                            THEN 0 ELSE canvas[i]]]

\* "2. Draw current frame onto canvas": put_pixel for every pixel of the
\* frame, skipping the transparent index and pixels outside the canvas.
draw_frame(canvas, frame, w, h) ==
    [i \in 1..Len(canvas) |->
        IF /\ frame.color # 0
           /\ PixelCol(i, w) >= frame.left
           /\ PixelCol(i, w) < frame.left + frame.width
           /\ PixelRow(i, w) >= frame.top
           /\ PixelRow(i, w) < frame.top + frame.height
        THEN frame.color ELSE canvas[i]]

\* The state before the `while let Some(frame)` loop.
ComposeStart(w, h) ==
    [canvas |-> [i \in 1..(w * h) |-> 0],
     previous_canvas |-> [i \in 1..(w * h) |-> 0],
     last_disposal |-> "Any",
     last_rect |-> << 0, 0, 0, 0 >>,
     bases |-> << >>,
     frames |-> << >>,
     panic |-> FALSE]

\* One iteration of the loop: dispose of the previous frame, snapshot for
\* restore-to-previous, draw, push.  `bases` records the canvas each frame
\* was drawn on.
ComposeStep(st, frame, w, h, checks) ==
    LET disposed ==
            IF st.last_disposal = "Background"
            THEN dispose_background(st.canvas, st.last_rect, w, h, checks)
            ELSE IF st.last_disposal = "Previous"
            THEN [panic |-> FALSE, canvas |-> st.previous_canvas]
            ELSE [panic |-> FALSE, canvas |-> st.canvas]
        drawn == draw_frame(disposed.canvas, frame, w, h)
    IN  IF st.panic THEN st
        ELSE IF disposed.panic THEN [st EXCEPT !.panic = TRUE]
        ELSE [canvas |-> drawn,
              previous_canvas |-> IF frame.dispose = "Previous"
                                  THEN disposed.canvas
                                  ELSE st.previous_canvas,
              last_disposal |-> frame.dispose,
              last_rect |-> << frame.left, frame.top, frame.width,
                               frame.height >>,
              bases |-> Append(st.bases, disposed.canvas),
              frames |-> Append(st.frames, drawn),
              panic |-> FALSE]

RECURSIVE Compose(_, _, _, _, _)
Compose(input, n, w, h, checks) ==
    IF n = 0 THEN ComposeStart(w, h)
    ELSE ComposeStep(Compose(input, n - 1, w, h, checks), input[n], w, h,
                     checks)

GifFrame(top, rows, dispose, color) ==
    [left |-> 0, top |-> top, width |-> 1, height |-> rows,
     dispose |-> dispose, color |-> color]

DisposalMethods == { "Any", "Keep", "Background", "Previous" }

GifFrames ==
    { GifFrame(t, h, d, c) : t \in { 0, 1 }, h \in { 1, U16Max },
                             d \in DisposalMethods, c \in { 0, 1 } }

GifInputs ==
    { << a, b >> : a \in GifFrames, b \in GifFrames }

InitGif ==
    /\ overflow_checks \in BOOLEAN
    /\ panicked = FALSE
    /\ width = 0
    /\ height = 0
    /\ framebuffer = << >>
    /\ draw_color = 0
    /\ draws = 0
    /\ handle = FALSE
    /\ memory = << >>
    /\ sample_rate = 0
    /\ host_queue = << >>
    /\ channels = << >>
    /\ uploaded = << >>
    /\ kv = EmptyMap
    /\ res = ResourcesDefault
    /\ game_data = << >>
    /\ module = << >>
    /\ instance = << >>
    /\ entrypoints = << >>
    /\ steps = << >>
    /\ AuxInit
    /\ \E input \in GifInputs : last = Call("gif_frames", input, "none")

\* graphics_gif_create from the first read_next_frame to the last push.
gif_compose ==
    /\ last.op = "gif_frames"
    /\ LET out == Compose(last.args, Len(last.args), GifWidth, GifHeight,
                          overflow_checks)
       IN  /\ panicked' = out.panic
           /\ last' = Call("graphics_gif_create", last.args,
                           [panic |-> out.panic, bases |-> out.bases,
                            frames |-> out.frames])
    /\ UNCHANGED << aux_vars, core_vars, overflow_checks, gfx_vars,
                    audio_vars, memory, kv, res >>

NextGif == gif_compose

SpecGif == InitGif /\ [][NextGif]_vars

\* The canvas with the part of the frame's rectangle that lies on it
\* cleared to transparent.
RectCleared(canvas, frame, w) ==
    [i \in 1..Len(canvas) |->
        IF /\ PixelCol(i, w) >= frame.left
           /\ PixelCol(i, w) < frame.left + frame.width
           /\ PixelRow(i, w) >= frame.top
           /\ PixelRow(i, w) < frame.top + frame.height
        THEN 0 ELSE canvas[i]]

\* C23: ingest composes every frame, and the canvas frame n+1 is composed
\* on is the canvas after frame n (disposal keep or unspecified), that
\* canvas with frame n's rectangle cleared (restore-to-background), or the
\* canvas frame n was drawn on (restore-to-previous).
C23_DisposalBases ==
    last.op = "graphics_gif_create" =>
        /\ ~last.ret.panic
        /\ Len(last.ret.bases) = Len(last.args)
        /\ \A n \in 1..(Len(last.args) - 1) :
              last.ret.bases[n + 1] =
                 CASE last.args[n].dispose = "Background" ->
                         RectCleared(last.ret.frames[n], last.args[n],
                                     GifWidth)
                   [] last.args[n].dispose = "Previous" ->
                         last.ret.bases[n]
                   [] OTHER -> last.ret.frames[n]


(***************************************************************************)
(* Animation playback: the frame selection of graphics_gif_draw_scaled for *)
(* a stored animation, over delay lists of zero to three frames and the    *)
(* clock values of more than one period.                                   *)
(***************************************************************************)
RECURSIVE SumDelaysMs(_, _)
\* gif.delays.iter().map(|&d| d as u64 * 10).sum() over the first n delays.
SumDelaysMs(delays, n) ==
    IF n = 0 THEN 0 ELSE SumDelaysMs(delays, n - 1) + delays[n] * 10

\* "Treat 0 delay as 100ms".
EffectiveDelay(d) == IF d * 10 = 0 THEN 100 ELSE d * 10

RECURSIVE SelectFrom(_, _, _)
\* The `for (i, &d) in gif.delays.iter().enumerate()` loop from 0-based
\* index i with remainder rem: the index it breaks at, or 0 if it runs out.
SelectFrom(delays, i, rem) ==
    IF i >= Len(delays) THEN 0
    ELSE IF rem < EffectiveDelay(delays[i + 1]) THEN i
    ELSE SelectFrom(delays, i + 1,
                    Max2(rem - EffectiveDelay(delays[i + 1]), 0))

\* frame_idx of graphics_gif_draw_scaled at clock value millis.
gif_frame_idx(delays, millis) ==
    LET total_delay_ms == SumDelaysMs(delays, Len(delays))
    IN  IF total_delay_ms > 0
        THEN SelectFrom(delays, 0, millis % total_delay_ms)
        ELSE 0

AnimDelays == { 0, 1, 2 }
AnimDelayLists ==
    { << >> }
      \cup { << a >> : a \in AnimDelays }
      \cup { << a, b >> : a \in AnimDelays, b \in AnimDelays }
      \cup { << a, b, c >> : a \in AnimDelays, b \in AnimDelays,
                             c \in AnimDelays }
AnimMillis == 0..60

InitAnim ==
    /\ overflow_checks \in BOOLEAN
    /\ panicked = FALSE
    /\ width = 0
    /\ height = 0
    /\ framebuffer = << >>
    /\ draw_color = 0
    /\ draws = 0
    /\ handle = FALSE
    /\ memory = << >>
    /\ sample_rate = 0
    /\ host_queue = << >>
    /\ channels = << >>
    /\ uploaded = << >>
    /\ kv = EmptyMap
    /\ res = ResourcesDefault
    /\ game_data = << >>
    /\ module = << >>
    /\ instance = << >>
    /\ entrypoints = << >>
    /\ steps = << >>
    /\ AuxInit
    /\ \E delays \in AnimDelayLists, millis \in AnimMillis :
          last = Call("stored_gif", << delays, millis >>, "none")

\* graphics_gif_draw_scaled on a stored animation with one frame per delay:
\* `&gif.frames[frame_idx]` panics when the index is out of range.
gif_draw_select ==
    /\ last.op = "stored_gif"
    /\ LET frame_idx == gif_frame_idx(last.args[1], last.args[2])
           in_range == frame_idx < Len(last.args[1])
       IN  /\ panicked' = ~in_range
           /\ last' = Call("graphics_gif_draw_scaled", last.args,
                           [panic |-> ~in_range, frame_idx |-> frame_idx])
    /\ UNCHANGED << aux_vars, core_vars, overflow_checks, gfx_vars,
                    audio_vars, memory, kv, res >>

NextAnim == gif_draw_select

SpecAnim == InitAnim /\ [][NextAnim]_vars

\* Whether 0-based frame i's cumulative-delay interval contains time rem.
InInterval(delays, i, rem) ==
    /\ SumDelaysMs(delays, i) <= rem
    /\ rem < SumDelaysMs(delays, i + 1)

\* C24: for an animation of total delay T > 0 the frame drawn at time t is
\* the frame whose cumulative-delay interval contains t mod T.
C24_TimeModuloSelection ==
    (last.op = "graphics_gif_draw_scaled"
       /\ SumDelaysMs(last.args[1], Len(last.args[1])) > 0) =>
        /\ ~last.ret.panic
        /\ InInterval(last.args[1], last.ret.frame_idx,
                      last.args[2]
                        % SumDelaysMs(last.args[1], Len(last.args[1])))

\* C28: drawing a stored animation selects a frame index below the number
\* of stored frames, whatever the clock and the delays, so the draw does not
\* index out of range.
C28_FrameIndexInRange ==
    last.op = "graphics_gif_draw_scaled" =>
        /\ ~last.ret.panic
        /\ ~panicked
        /\ last.ret.frame_idx < Len(last.args[1])


(***************************************************************************)
(* Further claims about filled circles.                                    *)
(***************************************************************************)
\* C25: a filled circle completes and colours exactly the on-screen pixels
\* within squared distance r * r of the centre: each such pixel takes the
\* draw color and every other pixel keeps its value (so the disc is
\* symmetric about its centre).
C25_DiscExact ==
    [][ last'.op = "circle" =>
          /\ last'.ret = "ok"
          /\ \A p \in OnScreen :
                p[2] * width + p[1] + 1 <= Len(framebuffer) =>
                   framebuffer'[p[2] * width + p[1] + 1] =
                      IF ShapeCovers("circle", last'.args, p)
                      THEN draw_color
                      ELSE framebuffer[p[2] * width + p[1] + 1]
      ]_vars


(***************************************************************************)
(* Bitmap text: the FontResource::Spleen arm of graphics_text, for every   *)
(* built-in size, strings of up to two characters with and without a       *)
(* glyph, and one stored row per glyph.                                    *)
(***************************************************************************)
\* `byte & (1 << (7 - col))` for a u8 byte and a usize col: the subtraction
\* and the shift as evaluated, [ovf] when 7 - col is negative (col >= 8).
\* Without overflow checks the subtraction wraps and the shift amount is
\* taken modulo 8.
BitTest(byte, col) ==
    LET amount == (7 - col) % 8
    IN  [ovf |-> 7 - col < 0,
         shift |-> 7 - col,
         set |-> (byte \div (2 ^ amount)) % 2 = 1]

\* The columns graphics_point is called for, for one stored row drawn with
\* the pen at px.
RowPoints(byte, cell_width, px) ==
    { px + col : col \in { c \in 0..(cell_width - 1) : BitTest(byte, c).set } }

RECURSIVE TextRun(_, _, _, _, _)
\* The `for ch in text.chars()` loop over the first n characters: the pen,
\* the points plotted on the glyph's row, the shift amounts evaluated, and
\* whether a build with overflow checks has panicked.  has_glyph[k] says
\* whether the font maps character k.
TextRun(has_glyph, n, byte, cell_width, x) ==
    IF n = 0
    THEN [px |-> x, points |-> { }, shifts |-> { }, ovf |-> FALSE]
    ELSE LET before == TextRun(has_glyph, n - 1, byte, cell_width, x)
         IN  [px |-> before.px + cell_width,
              points |-> IF has_glyph[n]
                         THEN before.points
                                \cup RowPoints(byte, cell_width, before.px)
                         ELSE before.points,
              shifts |-> IF has_glyph[n]
                         THEN before.shifts
                                \cup { BitTest(byte, c).shift :
                                         c \in 0..(cell_width - 1) }
                         ELSE before.shifts,
              ovf |-> before.ovf
                        \/ (has_glyph[n]
                              /\ \E c \in 0..(cell_width - 1) :
                                    BitTest(byte, c).ovf)]

TextSizes == { 8, 16, 24, 32, 64 }
TextRows == { 0, 1, 129, 255 }
TextGlyphFlags ==
    { << >> } \cup { << a >> : a \in BOOLEAN }
      \cup { << a, b >> : a \in BOOLEAN, b \in BOOLEAN }

InitText ==
    /\ overflow_checks \in BOOLEAN
    /\ panicked = FALSE
    /\ width = 0
    /\ height = 0
    /\ framebuffer = << >>
    /\ draw_color = 0
    /\ draws = 0
    /\ handle = FALSE
    /\ memory = << >>
    /\ sample_rate = 0
    /\ host_queue = << >>
    /\ channels = << >>
    /\ uploaded = << >>
    /\ kv = EmptyMap
    /\ res = ResourcesDefault
    /\ game_data = << >>
    /\ module = << >>
    /\ instance = << >>
    /\ entrypoints = << >>
    /\ steps = << >>
    /\ AuxInit
    /\ \E size \in TextSizes, has_glyph \in TextGlyphFlags,
          byte \in TextRows :
          last = Call("spleen_text", << size, has_glyph, byte >>, "none")

\* graphics_text with a built-in font of the given size, pen starting at 0.
graphics_text_spleen ==
    /\ last.op = "spleen_text"
    /\ LET cell_width == SpleenCell(last.args[1])[1]
           run == TextRun(last.args[2], Len(last.args[2]), last.args[3],
                          cell_width, 0)
           panic == overflow_checks /\ run.ovf
       IN  /\ panicked' = panic
           /\ last' = Call("graphics_text", last.args,
                           [panic |-> panic, px |-> run.px,
                            points |-> run.points, shifts |-> run.shifts])
    /\ UNCHANGED << aux_vars, core_vars, overflow_checks, gfx_vars,
                    audio_vars, memory, kv, res >>

NextText == graphics_text_spleen

SpecText == InitText /\ [][NextText]_vars

\* C26: for every built-in bitmap font, drawing text completes, every bit
\* test shifts by an amount in 0..7 (no underflow of 7 - col, no
\* out-of-range shift), and the pen advances by the glyph width per
\* character whether or not the character has a glyph.
C26_GlyphBitsInRange ==
    last.op = "graphics_text" =>
        /\ ~last.ret.panic
        /\ \A shift \in last.ret.shifts : shift >= 0 /\ shift <= 7
        /\ last.ret.px = SpleenCell(last.args[1])[1] * Len(last.args[2])


(***************************************************************************)
(* Further claims about the resource registry.                             *)
(***************************************************************************)
\* Whether every id of id table `table` is the value of some key of key
\* table `keyed`.
AllReferenced(table, keyed) ==
    \A id \in DOMAIN res[table] :
       \E key \in DOMAIN res[keyed] : res[keyed][key] = id

\* C27: after any sequence of keyed register and unregister calls, every
\* entry of svgs, gifs and fonts is referenced by a key of keyed_svgs,
\* keyed_gifs and keyed_fonts respectively.
C27_NoUnreachableResource ==
    /\ AllReferenced("svgs", "keyed_svgs")
    /\ AllReferenced("gifs", "keyed_gifs")
    /\ AllReferenced("fonts", "keyed_fonts")


(***************************************************************************)
(* Pointer buttons: the INPUT_IS_MOUSE_DOWN import over every button id of *)
(* the machine word and cached masks with no, the lowest and two middle    *)
(* bits set.                                                               *)
(***************************************************************************)
BitSet(mask, n) == (mask \div (2 ^ n)) % 2 = 1

\* `1u32 << btn` and the mask test: the shift overflows when btn is not
\* below the word size; without overflow checks the amount is taken modulo
\* the word size.
is_mouse_down(mask, btn, checks) ==
    IF btn >= WordBits /\ checks
    THEN [panic |-> TRUE, value |-> 0]
    ELSE [panic |-> FALSE,
          value |-> IF BitSet(mask, btn % WordBits) THEN 1 ELSE 0]

MouseMasks == { 0, 1, 6 }
MouseButtonIds == 0..U32Max

InitMouse ==
    /\ overflow_checks \in BOOLEAN
    /\ panicked = FALSE
    /\ width = 0
    /\ height = 0
    /\ framebuffer = << >>
    /\ draw_color = 0
    /\ draws = 0
    /\ handle = FALSE
    /\ memory = << >>
    /\ sample_rate = 0
    /\ host_queue = << >>
    /\ channels = << >>
    /\ uploaded = << >>
    /\ kv = EmptyMap
    /\ res = ResourcesDefault
    /\ game_data = << >>
    /\ module = << >>
    /\ instance = << >>
    /\ entrypoints = << >>
    /\ steps = << >>
    /\ AuxInit
    /\ \E mask \in MouseMasks :
          last = Call("mouse_buttons", << mask >>, "cached")

\* The guest calls the INPUT_IS_MOUSE_DOWN import with button id btn.
input_is_mouse_down(btn) ==
    /\ ~panicked
    /\ last.op \in { "mouse_buttons", "input_is_mouse_down" }
    /\ LET out == is_mouse_down(last.args[1], btn, overflow_checks)
       IN  /\ panicked' = out.panic
           /\ last' = Call("input_is_mouse_down", << last.args[1], btn >>,
                           out)
    /\ UNCHANGED << aux_vars, core_vars, overflow_checks, gfx_vars,
                    audio_vars, memory, kv, res >>

NextMouse == \E btn \in MouseButtonIds : input_is_mouse_down(btn)

SpecMouse == InitMouse /\ [][NextMouse]_vars

\* C29: the pointer-button query completes and returns 1 exactly when bit
\* btn of the cached mask is set, hence 0 for every btn at or above the word
\* size.
C29_MouseButtonBit ==
    last.op = "input_is_mouse_down" =>
        /\ ~last.ret.panic
        /\ last.ret.value =
              IF last.args[2] < WordBits /\ BitSet(last.args[1], last.args[2])
              THEN 1 ELSE 0


(***************************************************************************)
(* Upload-ABI audio ring buffer: AudioState with a capacity chosen at      *)
(* configuration, the guest committing write indices and the core          *)
(* consuming at most the readable frames.                                  *)
(***************************************************************************)
\* AudioState::available_frames
available_frames(a) ==
    LET cap == a.capacity_frames
        w == IF cap = 0 THEN 0 ELSE a.write_index_frames % cap
        r == IF cap = 0 THEN 0 ELSE a.read_index_frames % cap
    IN  IF cap = 0 THEN 0
        ELSE IF w >= r THEN w - r ELSE cap - (r - w)

\* AudioState::consume_frames: wrapping_add on the machine word, then the
\* remainder by the capacity.
ring_consume_frames(a, frames) ==
    LET cap == a.capacity_frames
    IN  IF cap = 0 THEN a
        ELSE [a EXCEPT !.read_index_frames =
                           ((a.read_index_frames + frames) % U32Mod) % cap]

\* AudioState::set_write_index
ring_set_write_index(a, new_write_index_frames) ==
    LET cap == a.capacity_frames
    IN  IF cap = 0 THEN [a EXCEPT !.write_index_frames = 0]
        ELSE [a EXCEPT !.write_index_frames = new_write_index_frames % cap]

RingCapacities == { 0, 1, 3, 5, U32Mod - 56 }
RingWriteIndices ==
    { 0, 1, 2, 4, 7, (U32Mod \div 2) - 28, U32Mod - 57, U32Max }
RingConsumeCounts == { 0, 1, 2, (U32Mod \div 2) - 27, (U32Mod \div 2) + 27 }

InitRing ==
    /\ overflow_checks \in BOOLEAN
    /\ panicked = FALSE
    /\ width = 0
    /\ height = 0
    /\ framebuffer = << >>
    /\ draw_color = 0
    /\ draws = 0
    /\ handle = FALSE
    /\ memory = << >>
    /\ sample_rate = 0
    /\ host_queue = << >>
    /\ channels = << >>
    /\ uploaded = << >>
    /\ kv = EmptyMap
    /\ res = ResourcesDefault
    /\ game_data = << >>
    /\ module = << >>
    /\ instance = << >>
    /\ entrypoints = << >>
    /\ steps = << >>
    /\ lock_owner = [m \in Mutexes |-> 0]
    /\ call_chain = [t \in Threads |-> << >>]
    /\ \E cap \in RingCapacities :
          ring = [RingDefault EXCEPT !.capacity_frames = cap]
    /\ last = Call("audio_state", << >>, [available_before |-> 0])

\* The guest commits a write index.
set_write_index(w) ==
    /\ ring' = ring_set_write_index(ring, w)
    /\ last' = Call("set_write_index", << w >>,
                    [available_before |-> available_frames(ring)])
    /\ UNCHANGED << lock_owner, call_chain, core_vars, overflow_checks,
                    panicked, gfx_vars, audio_vars, memory, kv, res >>

\* The core consumes frames it has uploaded, never more than are readable.
consume_frames(n) ==
    /\ n <= available_frames(ring)
    /\ ring' = ring_consume_frames(ring, n)
    /\ last' = Call("consume_frames", << n >>,
                    [available_before |-> available_frames(ring)])
    /\ UNCHANGED << lock_owner, call_chain, core_vars, overflow_checks,
                    panicked, gfx_vars, audio_vars, memory, kv, res >>

NextRing ==
    \/ \E w \in RingWriteIndices : set_write_index(w)
    \/ \E n \in RingConsumeCounts : consume_frames(n)

SpecRing == InitRing /\ [][NextRing]_vars

\* C30: with capacity > 0 both indices stay in [0, capacity), the readable
\* count is below the capacity and consume_frames(n) lowers it by exactly n;
\* with capacity 0 the readable count is 0 and both indices stay 0.
C30_RingIndicesAndConsume ==
    last.op \in { "audio_state", "set_write_index", "consume_frames" } =>
        IF ring.capacity_frames > 0
        THEN /\ ring.read_index_frames \in 0..(ring.capacity_frames - 1)
             /\ ring.write_index_frames \in 0..(ring.capacity_frames - 1)
             /\ available_frames(ring) < ring.capacity_frames
             /\ last.op = "consume_frames" =>
                   available_frames(ring) =
                       last.ret.available_before - last.args[1]
        ELSE /\ available_frames(ring) = 0
             /\ ring.read_index_frames = 0
             /\ ring.write_index_frames = 0

====
